---- MODULE Spec2Model ----
(***************************************************************************)
(* Scenario instantiation of A/B Street (sim/src/make/scenario.rs):        *)
(* schedule validation, vehicle allocation, parked-car seeding and the     *)
(* per-person orchestration loop.                                          *)
(***************************************************************************)
EXTENDS Integers, Sequences, FiniteSets, TLC

VARIABLES
    trips,                      \* PersonSpec.trips of the person under study
    sched_result,               \* result of check_schedule, "unchecked" before the call
    gv_i,                       \* get_vehicles: index of the next trip of the for loop (0: not called)
    rng,                        \* get_vehicles: state of the rng argument
    vehicle_specs,              \* get_vehicles: Vec<VehicleSpec>
    cars_initially_parked_at,   \* get_vehicles: Vec<(usize, BuildingID)>
    vehicle_foreach_trip,       \* get_vehicles: Vec<Option<usize>>
    bike_idx,                   \* get_vehicles: Option<usize>
    car_locations,              \* get_vehicles: Vec<(usize, Option<BuildingID>)>
    road_links,                 \* map: the pairs of roads that meet at an intersection
    all_spots,                  \* sim.get_all_parking_spots().1, the free spots
    bldg_parking,               \* map.get_b(b).parking of every building
    parked_cars,                \* seed_parked_cars: the buildings of its (vehicle, building) list
    base_rng,                   \* seed_parked_cars: state of base_rng
    pk_pc,                      \* seed_parked_cars: "entry", "cars", "infinite" (the loops), "returned"
    open_spots_per_road,        \* seed_parked_cars: RoadID -> Vec<(ParkingSpot, Option<BuildingID>)>
    car_i,                      \* seed_parked_cars: position of the for loop in parked_cars
    ok,                         \* seed_parked_cars: let mut ok
    seeded,                     \* seed_parked_cars: let mut seeded
    sim_parked,                 \* sim: the (vehicle, spot) pairs passed to seed_parked_car
    warnings,                   \* timer: the (seeded, total) pairs passed to warn
    fork_log,                   \* history: per fork_rng call, the road, base state and sub-stream
    last_search,                \* history: argument, mapping before and result of the last search
    people,                     \* Scenario.people
    net,                        \* map: the answers of the network queries of SpawnTrip
    inst_pc,                    \* instantiate_without_retries: the phase it is in
    p_i,                        \* instantiate_without_retries: position of for p in &self.people
    schedule_trips,             \* instantiate_without_retries: let mut schedule_trips
    inst_parked_cars,           \* instantiate_without_retries: let mut parked_cars
    sim_people,                 \* sim: the persons registered by new_person
    pending,                    \* timer.parallelize: the requests no worker has finished
    results,                    \* timer.parallelize: the result slot of every request
    reordered,                  \* history: some worker finished before one with an earlier request
    spawner_trips,              \* TripSpawner: the trips scheduled so far
    sim_flushed,                \* sim: the trips received by flush_spawner
    only_seed_buses,            \* Scenario.only_seed_buses
    sim_buses,                  \* sim: the routes passed to seed_bus_route
    infinite_parking,           \* sim.infinite_parking()
    blackholed_bldgs,           \* sim: the buildings without reachable parking (infinite mode)
    blackholed,                 \* seed_parked_cars: let mut blackholed
    fs_pc,                      \* find_spot_near_building run step by step: where it is
    fs_b,                       \* find_spot_near_building: the argument b
    fs_before,                  \* history: the mapping the call was entered with
    roads_queue,                \* find_spot_near_building: VecDeque<RoadID>
    visited,                    \* find_spot_near_building: HashSet<RoadID>
    enqueued,                   \* history: per road, the number of push_back
    dequeued                    \* history: per road, the number of pop_front

personVars == <<trips, sched_result>>
gvVars == <<gv_i, rng, vehicle_specs, cars_initially_parked_at, vehicle_foreach_trip,
            bike_idx, car_locations>>
mapVars == <<road_links, all_spots, bldg_parking, infinite_parking, blackholed_bldgs>>
parkVars == <<parked_cars, base_rng, pk_pc, open_spots_per_road, car_i, ok, seeded, blackholed,
              sim_parked, warnings, fork_log, last_search>>
instVars == <<people, net, inst_pc, p_i, schedule_trips, inst_parked_cars, sim_people,
              pending, results, reordered, spawner_trips, sim_flushed>>
busVars == <<only_seed_buses, sim_buses>>
searchVars == <<fs_pc, fs_b, fs_before, roads_queue, visited, enqueued, dequeued>>
vars == <<personVars, gvVars, mapVars, busVars, parkVars, instVars, searchVars>>

----------------------------------------------------------------------------
(* Bounds *)
MaxTrips == 3
MaxCars == 3
MaxLotSpots == 1
MaxPeople == 2
MaxLegs == 2

----------------------------------------------------------------------------
(* Option<BTreeSet<String>>: Scenario.only_seed_buses *)
NoRestriction == [kind |-> "None"]
Only(routes) == [kind |-> "Some", routes |-> routes]

----------------------------------------------------------------------------
(* Option<T>: None is 0, Some(x) is x for the positive ids and shifted      *)
(* indices used below.                                                      *)
None == 0

Buildings == 1 .. 2

(* TripEndpoint *)
Bldg(b) == [kind |-> "Bldg", id |-> b]
Border(i) == [kind |-> "Border", id |-> i]
SuddenlyAppear(p) == [kind |-> "SuddenlyAppear", id |-> p]

TripEndpoints == {Bldg(b) : b \in Buildings} \cup {Border(1), SuddenlyAppear(1)}

(* TripMode *)
TripModes == {"Walk", "Bike", "Transit", "Drive"}

(* IndividTrip::new; purpose and modified are only copied by the code below *)
IndividTrip(depart, from, to, mode) ==
    [depart |-> depart, from |-> from, to |-> to, mode |-> mode, cancelled |-> FALSE]

----------------------------------------------------------------------------
(* PersonSpec::check_schedule *)

\* the match on pair.0.to / pair.1.from
bldg_of(endpoint) == IF endpoint.kind = "Bldg" THEN endpoint.id ELSE None

RECURSIVE check_pairs_late(_, _)
check_pairs_late(ts, i) ==
    IF i >= Len(ts) THEN "Ok"
    ELSE IF ts[i].depart > ts[i + 1].depart THEN "ErrOrder"
    ELSE IF bldg_of(ts[i].to) # bldg_of(ts[i + 1].from) THEN "ErrWarp"
    ELSE check_pairs_late(ts, i + 1)

check_schedule_late(ts) == check_pairs_late(ts, 1)

RECURSIVE check_pairs_wild(_, _)
check_pairs_wild(ts, i) ==
    IF i >= Len(ts) THEN "Ok"
    ELSE IF ts[i].depart >= ts[i + 1].depart THEN "ErrOrder"
    ELSE IF /\ bldg_of(ts[i].to) # None
            /\ bldg_of(ts[i + 1].from) # None
            /\ bldg_of(ts[i].to) # bldg_of(ts[i + 1].from) THEN "ErrWarp"
    ELSE check_pairs_wild(ts, i + 1)

check_schedule_wild(ts) == check_pairs_wild(ts, 1)

\* the for loop over trips.iter().zip(trips.iter().skip(1)), from pair i on
RECURSIVE check_pairs(_, _)
check_pairs(ts, i) ==
    IF i >= Len(ts) THEN "Ok"
    ELSE IF ts[i].depart >= ts[i + 1].depart THEN "ErrOrder"
    ELSE IF bldg_of(ts[i].to) # bldg_of(ts[i + 1].from) THEN "ErrWarp"
    ELSE check_pairs(ts, i + 1)

check_schedule_skipped(ts) == "Ok"

\* PersonSpec::check_schedule
check_schedule(ts) == check_pairs(ts, 1)

----------------------------------------------------------------------------
(* Specification SpecSchedule: check_schedule applied to every person with  *)
(* up to MaxTrips trips.                                                    *)

Times == 0 .. (MaxTrips - 1)

\* One person with n trips. check_schedule reads every departure, and of the
\* endpoints only each trip's destination with the next trip's origin: those
\* are enumerated; the day starts and ends at building 1.
SchedPerson(n, deps, mids) ==
    [i \in 1 .. n |->
        IndividTrip(deps[i],
                    IF i = 1 THEN Bldg(1) ELSE mids[i - 1][2],
                    IF i = n THEN Bldg(1) ELSE mids[i][1],
                    "Walk")]

gvIdle ==
    /\ gv_i = 0
    /\ rng = 0
    /\ vehicle_specs = <<>>
    /\ cars_initially_parked_at = <<>>
    /\ vehicle_foreach_trip = <<>>
    /\ bike_idx = None
    /\ car_locations = <<>>

\* seed_parked_cars not called, on a map without roads
parkIdle ==
    /\ road_links = {}
    /\ all_spots = <<>>
    /\ bldg_parking = <<>>
    /\ infinite_parking = FALSE
    /\ blackholed_bldgs = {}
    /\ blackholed = 0
    /\ parked_cars = <<>>
    /\ base_rng = 0
    /\ pk_pc = "idle"
    /\ open_spots_per_road = <<>>
    /\ car_i = 0
    /\ ok = TRUE
    /\ seeded = 0
    /\ sim_parked = <<>>
    /\ warnings = <<>>
    /\ fork_log = <<>>
    /\ last_search = <<>>

\* no call of find_spot_near_building is followed step by step
searchIdle ==
    /\ fs_pc = "idle"
    /\ fs_b = 0
    /\ fs_before = <<>>
    /\ roads_queue = <<>>
    /\ visited = {}
    /\ enqueued = <<>>
    /\ dequeued = <<>>

\* instantiate_without_retries not called, on an empty scenario
instIdle ==
    /\ people = <<>>
    /\ net = <<>>
    /\ inst_pc = "idle"
    /\ p_i = 0
    /\ schedule_trips = <<>>
    /\ inst_parked_cars = <<>>
    /\ sim_people = <<>>
    /\ pending = {}
    /\ results = <<>>
    /\ reordered = FALSE
    /\ spawner_trips = <<>>
    /\ sim_flushed = <<>>
    /\ only_seed_buses = Only({})
    /\ sim_buses = <<>>

InitSchedule ==
    /\ \E n \in 0 .. MaxTrips :
         \E deps \in [1 .. n -> Times] :
           \E mids \in [1 .. (n - 1) -> TripEndpoints \X TripEndpoints] :
             trips = SchedPerson(n, deps, mids)
    /\ sched_result = "unchecked"
    /\ gvIdle
    /\ parkIdle
    /\ instIdle
    /\ searchIdle

CheckSchedule ==
    /\ sched_result = "unchecked"
    /\ sched_result' = check_schedule(trips)
    /\ UNCHANGED <<trips, gvVars, mapVars, busVars, searchVars, parkVars, instVars>>

NextSchedule == CheckSchedule

SpecSchedule == InitSchedule /\ [][NextSchedule]_vars

----------------------------------------------------------------------------
Pairs == 1 .. (Len(trips) - 1)

StrictlyOrdered == \A i \in Pairs : trips[i].depart < trips[i + 1].depart

\* C1: check_schedule fails whenever some consecutive pair of trips is not
\* strictly increasing in departure time (equal times included), and reports
\* no time-ordering failure when every consecutive pair is strictly increasing.
C1_TimeOrder ==
    sched_result # "unchecked" =>
        /\ (~StrictlyOrdered => sched_result \in {"ErrOrder", "ErrWarp"})
        /\ (StrictlyOrdered => sched_result # "ErrOrder")

\* a person with three trips whose second pair departs at equal times, rejected
C1_Witness ==
    /\ Len(trips) = 3
    /\ trips[1].depart < trips[2].depart
    /\ trips[2].depart = trips[3].depart
    /\ sched_result = "ErrOrder"

IsBldg(e) == e.kind = "Bldg"

\* C2 as stated: for a strictly time-ordered person, success iff every pair is
\* the same building or has a border/sudden-appearance endpoint on either side.
C2_Wildcard ==
    (sched_result # "unchecked" /\ StrictlyOrdered) =>
        (sched_result = "Ok" <=>
            \A i \in Pairs :
                \/ (IsBldg(trips[i].to) /\ IsBldg(trips[i + 1].from)
                    /\ trips[i].to.id = trips[i + 1].from.id)
                \/ ~IsBldg(trips[i].to)
                \/ ~IsBldg(trips[i + 1].from))

\* C2 amended: for a strictly time-ordered person, success iff every pair is
\* the same building on both sides, or off-map (border or sudden appearance,
\* not necessarily the same one) on both sides.
C2_BothOffMap ==
    (sched_result # "unchecked" /\ StrictlyOrdered) =>
        (sched_result = "Ok" <=>
            \A i \in Pairs :
                \/ (IsBldg(trips[i].to) /\ IsBldg(trips[i + 1].from)
                    /\ trips[i].to.id = trips[i + 1].from.id)
                \/ (~IsBldg(trips[i].to) /\ ~IsBldg(trips[i + 1].from)))

\* a time-ordered person who leaves through a border, re-enters at a sudden
\* appearance point and later continues from the building reached, accepted
C2_Witness ==
    /\ Len(trips) = 3
    /\ StrictlyOrdered
    /\ trips[1].to = Border(1) /\ trips[2].from = SuddenlyAppear(1)
    /\ trips[2].to = Bldg(2) /\ trips[3].from = Bldg(2)
    /\ sched_result = "Ok"

----------------------------------------------------------------------------
(* PersonSpec::get_vehicles *)

\* XorShiftRng narrowed to 4 bits: one step of the generator per value drawn
NextRng(s) == (5 * s + 1) % 16

\* n values drawn
RECURSIVE Advance(_, _)
Advance(s, n) == IF n = 0 THEN s ELSE Advance(NextRng(s), n - 1)

\* Scenario::rand_car: one gen_range draw for the length
rand_car(r) == [vehicle_type |-> "Car", sample |-> NextRng(r)]

\* Scenario::rand_bike: one gen_range draw for the max speed
rand_bike(r) == [vehicle_type |-> "Bike", sample |-> NextRng(r)]

needs_no_vehicle_walk_only(mode) == mode = "Walk"

needs_no_vehicle_but_car(mode) == mode # "Drive"

\* the arm TripMode::Walk | TripMode::Transit => None
needs_no_vehicle(mode) == mode \in {"Walk", "Transit"}

need_parked_at_nowhere(trip) == None

\* let need_parked_at = match trip.from { Bldg(b) => Some(b), _ => None }
need_parked_at(trip) == IF trip.from.kind = "Bldg" THEN trip.from.id ELSE None

find_car_never(locs, need) == None

\* car_locations.iter().find(|(_, parked_at)| *parked_at == need_parked_at).map(|(idx, _)| *idx)
find_car(locs, need) ==
    LET hits == {k \in 1 .. Len(locs) : locs[k][2] = need}
    IN  IF hits = {} THEN None
        ELSE locs[CHOOSE k \in hits : \A j \in hits : k <= j][1]

winds_up_nowhere(to) == None

\* match trip.to { Bldg(b) => Some(b), Border(_) | SuddenlyAppear(_) => None }
winds_up(to) == IF to.kind = "Bldg" THEN to.id ELSE None

move_car_no_retain(locs, idx, to) == Append(locs, <<idx, winds_up(to)>>)

\* car_locations.retain(|(i, _)| idx != *i); car_locations.push((idx, ...))
move_car(locs, idx, to) ==
    Append(SelectSeq(locs, LAMBDA e : e[1] # idx), <<idx, winds_up(to)>>)

\* the locals of get_vehicles before its for loop
gv_locals(r) ==
    [rng |-> r,
     vehicle_specs |-> <<>>,
     cars_initially_parked_at |-> <<>>,
     vehicle_foreach_trip |-> <<>>,
     bike_idx |-> None,
     car_locations |-> <<>>]

is_none_always(idx) == TRUE

\* bike_idx.is_none()
is_none(idx) == idx = None

park_initially_anyway(parked, idx, need) == Append(parked, <<idx, need>>)

\* if let Some(b) = need_parked_at { cars_initially_parked_at.push((idx, b)) }
park_initially(parked, idx, need) ==
    IF need # None THEN Append(parked, <<idx, need>>) ELSE parked

\* one iteration of for trip in &self.trips on the locals st
get_vehicles_trip(st, trip) ==
    IF needs_no_vehicle(trip.mode)
    THEN [st EXCEPT !.vehicle_foreach_trip = Append(@, None)]
    ELSE IF trip.mode = "Bike"
    THEN IF is_none(st.bike_idx)
         THEN [st EXCEPT !.bike_idx = Len(st.vehicle_specs) + 1,
                         !.vehicle_specs = Append(@, rand_bike(st.rng)),
                         !.rng = NextRng(@),
                         !.vehicle_foreach_trip = Append(@, Len(st.vehicle_specs) + 1)]
         ELSE [st EXCEPT !.vehicle_foreach_trip = Append(@, st.bike_idx)]
    ELSE LET need == need_parked_at(trip)
             found == find_car(st.car_locations, need)
             idx == Len(st.vehicle_specs) + 1
         IN  IF found # None
             THEN [st EXCEPT !.car_locations = move_car(@, found, trip.to),
                             !.vehicle_foreach_trip = Append(@, found)]
             ELSE [st EXCEPT !.vehicle_specs = Append(@, rand_car(st.rng)),
                             !.rng = NextRng(@),
                             !.cars_initially_parked_at = park_initially(@, idx, need),
                             !.car_locations = move_car(@, idx, trip.to),
                             !.vehicle_foreach_trip = Append(@, idx)]

\* the for loop of get_vehicles from trip i on
RECURSIVE get_vehicles_from(_, _, _)
get_vehicles_from(ts, i, st) ==
    IF i > Len(ts) THEN st ELSE get_vehicles_from(ts, i + 1, get_vehicles_trip(st, ts[i]))

\* get_vehicles(&self, rng): the three returned vectors, and the rng as left
get_vehicles(ts, r) == get_vehicles_from(ts, 1, gv_locals(r))

\* entry of get_vehicles: the locals are empty, the loop is at the first trip
GetVehiclesCall ==
    /\ gv_i = 0
    /\ gv_i' = 1
    /\ vehicle_specs' = gv_locals(rng).vehicle_specs
    /\ cars_initially_parked_at' = gv_locals(rng).cars_initially_parked_at
    /\ vehicle_foreach_trip' = gv_locals(rng).vehicle_foreach_trip
    /\ bike_idx' = gv_locals(rng).bike_idx
    /\ car_locations' = gv_locals(rng).car_locations
    /\ UNCHANGED <<rng, personVars, mapVars, busVars, searchVars, parkVars, instVars>>

\* one iteration of for trip in &self.trips
GetVehiclesTrip ==
    /\ gv_i \in 1 .. Len(trips)
    /\ LET st == get_vehicles_trip(
                     [rng |-> rng,
                      vehicle_specs |-> vehicle_specs,
                      cars_initially_parked_at |-> cars_initially_parked_at,
                      vehicle_foreach_trip |-> vehicle_foreach_trip,
                      bike_idx |-> bike_idx,
                      car_locations |-> car_locations],
                     trips[gv_i])
       IN  /\ rng' = st.rng
           /\ vehicle_specs' = st.vehicle_specs
           /\ cars_initially_parked_at' = st.cars_initially_parked_at
           /\ vehicle_foreach_trip' = st.vehicle_foreach_trip
           /\ bike_idx' = st.bike_idx
           /\ car_locations' = st.car_locations
    /\ gv_i' = gv_i + 1
    /\ UNCHANGED <<personVars, mapVars, busVars, searchVars, parkVars, instVars>>

\* get_vehicles has returned its three vectors
gv_returned == gv_i = Len(trips) + 1

----------------------------------------------------------------------------
(* Specification SpecVehicles: get_vehicles applied to every person with up *)
(* to MaxTrips trips, as count_parked_cars_per_bldg calls it (no schedule   *)
(* check before).                                                           *)

\* get_vehicles reads the endpoints of drive trips only: drive trips take every
\* pair of endpoints, bike trips lead to or from a border, walk and transit
\* trips join the two buildings.
VehTrips ==
    {IndividTrip(0, f, t, "Drive") : f \in TripEndpoints, t \in TripEndpoints}
    \cup {IndividTrip(0, Bldg(1), Border(1), "Bike"), IndividTrip(0, Border(1), Bldg(2), "Bike")}
    \cup {IndividTrip(0, Bldg(1), Bldg(2), m) : m \in {"Walk", "Transit"}}

Seeds == {0, 3}

InitVehicles ==
    /\ \E n \in 0 .. MaxTrips :
         \E ts \in [1 .. n -> VehTrips] :
           trips = [i \in 1 .. n |-> [ts[i] EXCEPT !.depart = i]]
    /\ sched_result = "unchecked"
    /\ gv_i = 0
    /\ rng = 0
    /\ vehicle_specs = <<>>
    /\ cars_initially_parked_at = <<>>
    /\ vehicle_foreach_trip = <<>>
    /\ bike_idx = None
    /\ car_locations = <<>>
    /\ parkIdle
    /\ instIdle
    /\ searchIdle

NextVehicles == GetVehiclesCall \/ GetVehiclesTrip

SpecVehicles == InitVehicles /\ [][NextVehicles]_vars

----------------------------------------------------------------------------
DriveTrips == {i \in 1 .. Len(trips) : trips[i].mode = "Drive"}

Cars == {k \in 1 .. Len(vehicle_specs) : vehicle_specs[k].vehicle_type = "Car"}

Locations == {None} \cup Buildings

\* The fewest new cars any assignment needs for the drive trips from trip i on,
\* when cnt[l] cars already stand at location l: a drive trip is served by a
\* new car, or by a car standing at the trip's origin requirement, and leaves
\* the car at the trip's destination.
RECURSIVE MinNewCars(_, _, _)
MinNewCars(ts, i, cnt) ==
    IF i > Len(ts) THEN 0
    ELSE IF ts[i].mode # "Drive" THEN MinNewCars(ts, i + 1, cnt)
    ELSE LET need == IF IsBldg(ts[i].from) THEN ts[i].from.id ELSE None
             dest == IF IsBldg(ts[i].to) THEN ts[i].to.id ELSE None
             withNew == 1 + MinNewCars(ts, i + 1, [cnt EXCEPT ![dest] = @ + 1])
             taken == [cnt EXCEPT ![need] = @ - 1]
             withOld == MinNewCars(ts, i + 1, [taken EXCEPT ![dest] = @ + 1])
         IN  IF cnt[need] > 0 /\ withOld < withNew THEN withOld ELSE withNew

\* C4: the number of distinct cars get_vehicles creates is the minimum over
\* all assignments of cars to the drive trips in which a car serves a trip
\* only if it is new or stands where the trip starts.
C4_MinimalCars ==
    gv_returned =>
        Cardinality(Cars) = MinNewCars(trips, 1, [l \in Locations |-> 0])

\* three drive trips served by two cars: one reuse, one forced new car
C4_Witness ==
    /\ gv_returned
    /\ Cardinality(DriveTrips) = 3
    /\ Cardinality(Cars) = 2
    /\ vehicle_foreach_trip[1] = vehicle_foreach_trip[3]

\* the drive trip before drive trip i, 0 if i is the first one
PrevDrive(i) ==
    LET before == {j \in DriveTrips : j < i}
    IN  IF before = {} THEN 0 ELSE CHOOSE j \in before : \A k \in before : k <= j

\* every drive trip starts where the previous drive trip ended
DriveChained ==
    \A i \in DriveTrips :
        PrevDrive(i) # 0 =>
            \/ (IsBldg(trips[i].from) /\ IsBldg(trips[PrevDrive(i)].to)
                /\ trips[i].from.id = trips[PrevDrive(i)].to.id)
            \/ (~IsBldg(trips[i].from) /\ ~IsBldg(trips[PrevDrive(i)].to))

\* C5: a person with n drive trips gets at most n cars, and a person with at
\* least one drive trip whose drive trips each start where the previous drive
\* trip ended (same building, or both off-map) gets exactly one car, assigned
\* to every drive trip.
C5_CarBounds ==
    gv_returned =>
        /\ Cardinality(Cars) <= Cardinality(DriveTrips)
        /\ (DriveTrips # {} /\ DriveChained) =>
              /\ Cardinality(Cars) = 1
              /\ \A i \in DriveTrips : \A j \in DriveTrips :
                    /\ vehicle_foreach_trip[i] \in Cars
                    /\ vehicle_foreach_trip[i] = vehicle_foreach_trip[j]

\* three chained drive trips, the middle hand-over off-map, served by one car
C5_Witness ==
    /\ gv_returned
    /\ Cardinality(DriveTrips) = 3
    /\ DriveChained
    /\ ~IsBldg(trips[1].to)
    /\ IsBldg(trips[2].to)
    /\ Cardinality(Cars) = 1

\* C6: a person whose trips are all walk or transit gets no vehicle spec, no
\* initial parking assignment and no vehicle for any trip.
C6_WalkTransitNoVehicles ==
    (gv_returned /\ \A i \in 1 .. Len(trips) : trips[i].mode \in {"Walk", "Transit"}) =>
        /\ vehicle_specs = <<>>
        /\ cars_initially_parked_at = <<>>
        /\ Len(vehicle_foreach_trip) = Len(trips)
        /\ \A i \in 1 .. Len(trips) : vehicle_foreach_trip[i] = None

\* a person with walk and transit trips only, after get_vehicles returned
C6_Witness ==
    /\ gv_returned
    /\ Len(trips) = 3
    /\ \E i \in 1 .. 3 : trips[i].mode = "Walk"
    /\ \E i \in 1 .. 3 : trips[i].mode = "Transit"
    /\ \A i \in 1 .. 3 : trips[i].mode \in {"Walk", "Transit"}
    /\ vehicle_specs = <<>>

\* the bikes among the vehicles, and the bike trips among the trips handled
Bikes == {k \in 1 .. Len(vehicle_specs) : vehicle_specs[k].vehicle_type = "Bike"}

BikeTrips == {i \in 1 .. Len(vehicle_foreach_trip) : trips[i].mode = "Bike"}

\* C20: at any point of the loop of get_vehicles the person has at most one
\* bike, and has one exactly when a bike trip was handled; every bike trip
\* handled is assigned that bike and no other trip is; the bike was created at
\* the first bike trip: the vehicles before it are those of the trips before,
\* the vehicles after it were created for later trips.
C20_OneBike ==
    gv_i >= 1 =>
        /\ Cardinality(Bikes) <= 1
        /\ (Bikes = {}) = (BikeTrips = {})
        /\ (bike_idx = None) = (Bikes = {})
        /\ \A i \in 1 .. Len(vehicle_foreach_trip) :
              (i \in BikeTrips) = (vehicle_foreach_trip[i] \in Bikes)
        /\ \A k \in Bikes :
              LET first == CHOOSE i \in BikeTrips : \A j \in BikeTrips : i <= j
              IN  /\ bike_idx = k
                  /\ \A v \in 1 .. (k - 1) :
                        \E i \in 1 .. (first - 1) : vehicle_foreach_trip[i] = v
                  /\ \A i \in 1 .. (first - 1) :
                        vehicle_foreach_trip[i] # None => vehicle_foreach_trip[i] < k

\* a drive, then two bike trips that both start at building 1, the first
\* ending at the border: one car, then one bike used for both bike trips
C20_Witness ==
    /\ gv_returned
    /\ Len(trips) = 3
    /\ trips[1].mode = "Drive"
    /\ trips[2].mode = "Bike" /\ trips[3].mode = "Bike"
    /\ trips[2].from = trips[3].from /\ trips[2].to = Border(1)
    /\ vehicle_foreach_trip = <<1, 2, 2>>
    /\ Bikes = {2}

\* the drive trips handled so far
DriveHandled == {i \in 1 .. Len(vehicle_foreach_trip) : trips[i].mode = "Drive"}

\* a building, or None for off-map
PlaceOf(e) == IF IsBldg(e) THEN e.id ELSE None

\* the drive trips before trip i that car c served
ServedBefore(c, i) == {j \in DriveHandled : j < i /\ vehicle_foreach_trip[j] = c}

\* where car c stands just before trip i, having served a trip before
PlaceBefore(c, i) ==
    PlaceOf(trips[CHOOSE j \in ServedBefore(c, i) :
                      \A k \in ServedBefore(c, i) : k <= j].to)

\* C21: at any point of the loop of get_vehicles, every car has exactly one
\* tracked location, the destination of the last drive trip it served, a
\* building or off-map, and only cars are tracked; the car of every drive trip
\* handled is a car that stood at the trip's origin (the building, or off-map
\* for a border or sudden-appearance origin) or a new car, and it is new only
\* when no car stood there.
C21_TrackedLocations ==
    gv_i >= 1 =>
        /\ \A k \in 1 .. Len(car_locations) : car_locations[k][1] \in Cars
        /\ \A c \in Cars :
              /\ Cardinality({k \in 1 .. Len(car_locations) : car_locations[k][1] = c}) = 1
              /\ \A k \in 1 .. Len(car_locations) :
                    car_locations[k][1] = c =>
                        car_locations[k][2] = PlaceBefore(c, Len(vehicle_foreach_trip) + 1)
        /\ \A i \in DriveHandled :
              LET c == vehicle_foreach_trip[i]
                  earlier == {d \in Cars : ServedBefore(d, i) # {}}
              IN  /\ c \in Cars
                  /\ c \in earlier => PlaceBefore(c, i) = PlaceOf(trips[i].from)
                  /\ c \notin earlier =>
                        \A d \in earlier : PlaceBefore(d, i) # PlaceOf(trips[i].from)

\* a car drives from building 1 to building 2, a second car comes in from
\* the border, and the first car leaves building 2 for the border
C21_Witness ==
    /\ gv_returned
    /\ Len(trips) = 3
    /\ trips[1].from = Bldg(1) /\ trips[1].to = Bldg(2)
    /\ trips[2].from = Border(1) /\ trips[2].to = Bldg(1)
    /\ trips[3].from = Bldg(2) /\ trips[3].to = SuddenlyAppear(1)
    /\ vehicle_foreach_trip = <<1, 2, 1>>
    /\ car_locations = <<<<2, 1>>, <<1, None>>>>

\* the first drive trip handled that car c served
FirstDrive(c) ==
    CHOOSE j \in ServedBefore(c, Len(vehicle_foreach_trip) + 1) :
        \A k \in ServedBefore(c, Len(vehicle_foreach_trip) + 1) : j <= k

\* the cars whose first drive trip leaves a building
StartAtBldg == {c \in Cars : IsBldg(trips[FirstDrive(c)].from)}

\* C22: at any point of the loop of get_vehicles, cars_initially_parked_at
\* holds the pair (car, B) exactly for the cars whose first drive trip leaves
\* building B, each car at most once; a bike is never recorded, and a car whose
\* first drive trip starts at a border or appears suddenly has no record.
C22_InitiallyParked ==
    gv_i >= 1 =>
        /\ {cars_initially_parked_at[k] : k \in 1 .. Len(cars_initially_parked_at)}
               = {<<c, trips[FirstDrive(c)].from.id>> : c \in StartAtBldg}
        /\ \A j, k \in 1 .. Len(cars_initially_parked_at) :
              cars_initially_parked_at[j][1] = cars_initially_parked_at[k][1] => j = k
        /\ \A k \in 1 .. Len(cars_initially_parked_at) :
              /\ cars_initially_parked_at[k][1] \notin Bikes
              /\ cars_initially_parked_at[k][2] \in Buildings
        /\ \A c \in Cars \ StartAtBldg :
              \A k \in 1 .. Len(cars_initially_parked_at) :
                  cars_initially_parked_at[k][1] # c

\* a bike ride, then a car that comes in from the border and later leaves
\* building 1, and a second car that starts at building 2
C22_Witness ==
    /\ gv_returned
    /\ Len(trips) = 3
    /\ trips[1].mode = "Bike"
    /\ trips[2].mode = "Drive" /\ trips[2].from = Border(1) /\ trips[2].to = Bldg(1)
    /\ trips[3].mode = "Drive" /\ trips[3].from = Bldg(2)
    /\ vehicle_foreach_trip = <<1, 2, 3>>
    /\ cars_initially_parked_at = <<<<3, 2>>>>

----------------------------------------------------------------------------
(* seed_parked_cars and find_spot_near_building, constrained parking *)

\* map.all_roads(), in id order
Roads == 1 .. 4

\* ParkingSpot
Onstreet(l, k) == [kind |-> "Onstreet", at |-> l, idx |-> k]
Offstreet(b, k) == [kind |-> "Offstreet", at |-> b, idx |-> k]
Lot(pl, k) == [kind |-> "Lot", at |-> pl, idx |-> k]

\* NoSpot is the None of Option<ParkingSpot>
NoSpot == [kind |-> "None", at |-> 0, idx |-> 0]

\* map.building_to_road(b).id, the parent road of the building's sidewalk:
\* building b stands on road b
building_to_road(b) == b

\* map.get_l(l).parent: the parking lane of road r is lane r
lane_parent(l) == l

\* map.get_l(map.get_pl(pl).driving_pos.lane()).parent: the one lot is on road 3
lot_road(pl) == 3

\* map.get_next_roads(r), a BTreeSet: the roads meeting r at either end
get_next_roads(r) == {r2 \in Roads : r2 # r /\ {r, r2} \in road_links}

\* iteration order of a BTreeSet<RoadID>
RECURSIVE in_order(_)
in_order(S) ==
    IF S = {} THEN <<>>
    ELSE LET m == CHOOSE x \in S : \A y \in S : x <= y
         IN  <<m>> \o in_order(S \ {m})

\* let (r, restriction) = match spot { ... }
spot_road(spot) ==
    IF spot.kind = "Onstreet" THEN lane_parent(spot.at)
    ELSE IF spot.kind = "Offstreet" THEN building_to_road(spot.at)
    ELSE lot_road(spot.at)

spot_restriction(spot) ==
    IF spot.kind = "Offstreet" /\ bldg_parking[spot.at].kind = "Private"
    THEN spot.at
    ELSE None

\* the loop filling open_spots_per_road; a road without entry is the empty Vec
group_spots(spots) ==
    [r \in Roads |->
        SelectSeq([k \in 1 .. Len(spots) |-> <<spots[k], spot_restriction(spots[k])>>],
                  LAMBDA e : spot_road(e[1]) = r)]

\* crate::make::fork_rng: the sub-stream is seeded from one draw of the base
\* stream, which advances by that draw
fork_rng(base) == [base |-> NextRng(base), stream |-> (NextRng(base) + 8) % 16]

Swap(list, i, j) == [list EXCEPT ![i] = list[j], ![j] = list[i]]

\* SliceRandom::shuffle: for i in (1..len).rev() { swap(i, gen_range(0, i + 1)) }
RECURSIVE shuffle_from(_, _, _)
shuffle_from(list, i, r) ==
    IF i < 2 THEN list
    ELSE shuffle_from(Swap(list, i, (NextRng(r) % i) + 1), i - 1, NextRng(r))

shuffle(list, r) == shuffle_from(list, Len(list), r)

fork_road_lazy(base, spots) ==
    IF spots = <<>>
    THEN [base |-> base, stream |-> base, spots |-> spots]
    ELSE [base |-> fork_rng(base).base,
          stream |-> fork_rng(base).stream,
          spots |-> shuffle(spots, fork_rng(base).stream)]

\* one iteration of for r in map.all_roads(): fork, then shuffle the road's spots if any
fork_road(base, spots) ==
    [base |-> fork_rng(base).base,
     stream |-> fork_rng(base).stream,
     spots |-> IF spots = <<>> THEN spots ELSE shuffle(spots, fork_rng(base).stream)]

\* the loop for r in map.all_roads(), from road r on
RECURSIVE fork_roads(_, _, _, _)
fork_roads(r, base, spots, log) ==
    IF r \notin Roads THEN [base |-> base, spots |-> spots, log |-> log]
    ELSE LET f == fork_road(base, spots[r])
         IN  fork_roads(r + 1, f.base, [spots EXCEPT ![r] = f.spots],
                        Append(log, [road |-> r, base |-> base, stream |-> f.stream]))

position_not_other(spots, wanted) ==
    LET hits == {k \in 1 .. Len(spots) : wanted = None \/ spots[k][2] = wanted}
    IN  IF hits = {} THEN 0 ELSE CHOOSE k \in hits : \A j \in hits : k <= j

\* spots.iter().position(|(_, restriction)| restriction == wanted); 0 if none
position(spots, wanted) ==
    LET hits == {k \in 1 .. Len(spots) : spots[k][2] = wanted}
    IN  IF hits = {} THEN 0 ELSE CHOOSE k \in hits : \A j \in hits : k <= j

remove_kept(spots, k) == spots

\* the Vec left by spots.remove(idx)
remove(spots, k) == SubSeq(spots, 1, k - 1) \o SubSeq(spots, k + 1, Len(spots))

unvisited_none(r, seen) == <<>>

unvisited_again(r, seen) == in_order(get_next_roads(r))

\* the roads pushed by for next_r in map.get_next_roads(r), in order
unvisited(r, seen) == in_order(get_next_roads(r) \ seen)

push_ahead(queue, pushed) == pushed \o queue

\* roads_queue.push_back(next_r) for every road pushed
push_back(queue, pushed) == queue \o pushed

pick_unreserved_first(entries, b) ==
    IF position(entries, None) # 0 THEN position(entries, None) ELSE position(entries, b)

\* the index taken from a road's Vec: the first entry reserved for b, else the
\* first unreserved entry, else none (0)
pick(entries, b) ==
    IF position(entries, b) # 0 THEN position(entries, b) ELSE position(entries, None)

\* the loop of find_spot_near_building with roads_queue = queue
RECURSIVE search(_, _, _, _)
search(b, queue, seen, spots) ==
    IF queue = <<>> THEN [spot |-> NoSpot, spots |-> spots]
    ELSE LET r == Head(queue)
             idx == pick(spots[r], b)
             pushed == unvisited(r, seen)
         IN  IF idx # 0
             THEN [spot |-> spots[r][idx][1],
                   spots |-> [spots EXCEPT ![r] = remove(@, idx)]]
             ELSE search(b, push_back(Tail(queue), pushed),
                         seen \cup {pushed[k] : k \in 1 .. Len(pushed)}, spots)

find_spot_near_building(b, spots) ==
    search(b, <<building_to_road(b)>>, {building_to_road(b)}, spots)

\* seed_parked_cars up to its for loop: group the free spots by road, fork and
\* shuffle per road, set the loop's locals
SeedParkedCarsEntry ==
    /\ pk_pc = "entry"
    /\ ~infinite_parking
    /\ LET f == fork_roads(1, base_rng, group_spots(all_spots), <<>>)
       IN  /\ open_spots_per_road' = f.spots
           /\ base_rng' = f.base
           /\ fork_log' = f.log
    /\ pk_pc' = "cars"
    /\ car_i' = 1
    /\ ok' = TRUE
    /\ seeded' = 0
    /\ UNCHANGED <<parked_cars, sim_parked, warnings, last_search, blackholed>>
    /\ UNCHANGED <<personVars, gvVars, mapVars, busVars, searchVars, instVars>>

skip_rest_never(flag) == FALSE

\* if !ok { continue; }
skip_rest(flag) == ~flag

\* one iteration of for (vehicle, b) in parked_cars
SeedParkedCar ==
    /\ pk_pc = "cars"
    /\ car_i \in 1 .. Len(parked_cars)
    /\ IF skip_rest(ok)
       THEN UNCHANGED <<open_spots_per_road, ok, seeded, sim_parked, warnings, last_search>>
       ELSE LET b == parked_cars[car_i]
                found == find_spot_near_building(b, open_spots_per_road)
            IN  /\ open_spots_per_road' = found.spots
                /\ last_search' = <<[car |-> car_i, b |-> b, before |-> open_spots_per_road,
                                     spot |-> found.spot]>>
                /\ IF found.spot # NoSpot
                   THEN /\ seeded' = seeded + 1
                        /\ sim_parked' = Append(sim_parked, <<car_i, found.spot>>)
                        /\ UNCHANGED <<ok, warnings>>
                   ELSE /\ warnings' = Append(warnings, [seeded |-> seeded,
                                                         total |-> Len(parked_cars)])
                        /\ ok' = FALSE
                        /\ UNCHANGED <<seeded, sim_parked>>
    /\ car_i' = car_i + 1
    /\ UNCHANGED <<parked_cars, base_rng, pk_pc, fork_log, blackholed>>
    /\ UNCHANGED <<personVars, gvVars, mapVars, busVars, searchVars, instVars>>

\* sim.get_free_offstreet_spots(b) in infinite parking mode: a building has
\* unlimited capacity, so one spot not yet taken, unless the building has no
\* reachable parking
get_free_offstreet_spots(b) ==
    IF b \in blackholed_bldgs THEN <<>>
    ELSE <<Offstreet(b, 1 + Cardinality({k \in 1 .. Len(sim_parked) :
                                           sim_parked[k][2].at = b}))>>

\* Vec::pop: the last element, None on the empty Vec
pop(vec) == IF vec = <<>> THEN NoSpot ELSE vec[Len(vec)]

count_blackholed_never(n, spot) == n

\* else { blackholed += 1; }
count_blackholed(n, spot) == IF spot = NoSpot THEN n + 1 ELSE n

\* if sim.infinite_parking() { let mut blackholed = 0; ..
SeedInfiniteEntry ==
    /\ pk_pc = "entry"
    /\ infinite_parking
    /\ pk_pc' = "infinite"
    /\ blackholed' = 0
    /\ car_i' = 1
    /\ UNCHANGED <<parked_cars, base_rng, open_spots_per_road, ok, seeded, sim_parked, warnings,
                   fork_log, last_search>>
    /\ UNCHANGED <<personVars, gvVars, mapVars, busVars, searchVars, instVars>>

\* one iteration of for (vehicle, b) in parked_cars of the infinite branch
SeedInfiniteCar ==
    /\ pk_pc = "infinite"
    /\ car_i \in 1 .. Len(parked_cars)
    /\ LET spot == pop(get_free_offstreet_spots(parked_cars[car_i]))
       IN  /\ sim_parked' = IF spot # NoSpot THEN Append(sim_parked, <<car_i, spot>>)
                             ELSE sim_parked
           /\ blackholed' = count_blackholed(blackholed, spot)
    /\ car_i' = car_i + 1
    /\ UNCHANGED <<parked_cars, base_rng, pk_pc, open_spots_per_road, ok, seeded, warnings,
                   fork_log, last_search>>
    /\ UNCHANGED <<personVars, gvVars, mapVars, busVars, searchVars, instVars>>

\* after the loop of the infinite branch: the warning if blackholed > 0, return
SeedInfiniteReturn ==
    /\ pk_pc = "infinite"
    /\ car_i = Len(parked_cars) + 1
    /\ warnings' = IF blackholed > 0 THEN Append(warnings, [blackholed |-> blackholed])
                   ELSE warnings
    /\ pk_pc' = "returned"
    /\ UNCHANGED <<parked_cars, base_rng, open_spots_per_road, car_i, ok, seeded, sim_parked,
                   fork_log, last_search, blackholed>>
    /\ UNCHANGED <<personVars, gvVars, mapVars, busVars, searchVars, instVars>>

\* seed_parked_cars has returned: the for loop of the constrained branch is
\* over, or the infinite branch has returned
seed_returned ==
    \/ pk_pc = "cars" /\ car_i = Len(parked_cars) + 1
    \/ pk_pc = "returned"

----------------------------------------------------------------------------
(* Specification SpecParking: seed_parked_cars in constrained parking mode  *)
(* on maps of four roads and two buildings, the fourth road apart from the   *)
(* others and without parking, each parking lane with at most one free      *)
(* spot, for every list of up to MaxCars cars.                              *)

\* road graphs: no link, 1-2, the chains 1-2-3 and 1-3-2, the star around
\* road 1, the triangle
RoadGraphs ==
    {{}, {{1, 2}}, {{1, 2}, {2, 3}}, {{1, 3}, {2, 3}}, {{1, 2}, {1, 3}},
     {{1, 2}, {1, 3}, {2, 3}}}

\* building 1 has no parking or one private spot; building 2 none, one
\* private spot or a public garage of one spot
Parkings(b) ==
    {[kind |-> "Private", n |-> 0], [kind |-> "Private", n |-> 1]}
    \cup (IF b = 2 THEN {[kind |-> "PublicGarage", n |-> 1]} ELSE {})

RECURSIVE Concat(_)
Concat(ss) == IF ss = <<>> THEN <<>> ELSE Head(ss) \o Concat(Tail(ss))

\* the free spots of the sim: on-street by lane, off-street by building, lots
FreeSpots(onstreet, parking, lot) ==
    Concat([r \in Roads |-> [k \in 1 .. onstreet[r] |-> Onstreet(r, k)]])
    \o Concat([b \in Buildings |-> [k \in 1 .. parking[b].n |-> Offstreet(b, k)]])
    \o [k \in 1 .. lot |-> Lot(1, k)]

InitParking ==
    /\ trips = <<>>
    /\ sched_result = "unchecked"
    /\ gvIdle
    /\ road_links \in RoadGraphs
    /\ bldg_parking \in {f \in [Buildings -> UNION {Parkings(b) : b \in Buildings}] :
                             \A b \in Buildings : f[b] \in Parkings(b)}
    /\ \E onstreet \in {f \in [Roads -> 0 .. 1] : f[4] = 0} :
         \E lot \in 0 .. MaxLotSpots :
           all_spots = FreeSpots(onstreet, bldg_parking, lot)
    /\ infinite_parking = FALSE
    /\ blackholed_bldgs = {}
    /\ blackholed = 0
    /\ \E n \in 0 .. MaxCars : parked_cars \in [1 .. n -> Buildings]
    /\ base_rng \in Seeds
    /\ pk_pc = "entry"
    /\ open_spots_per_road = <<>>
    /\ car_i = 0
    /\ ok = TRUE
    /\ seeded = 0
    /\ sim_parked = <<>>
    /\ warnings = <<>>
    /\ fork_log = <<>>
    /\ last_search = <<>>
    /\ instIdle
    /\ searchIdle

NextParking == SeedParkedCarsEntry \/ SeedParkedCar

SpecParking == InitParking /\ [][NextParking]_vars

----------------------------------------------------------------------------
\* the roads reachable from the roads of S through the road-adjacency graph
RECURSIVE ReachFrom(_)
ReachFrom(S) ==
    LET N == S \cup UNION {get_next_roads(r) : r \in S}
    IN  IF N = S THEN S ELSE ReachFrom(N)

Reachable(b) == ReachFrom({building_to_road(b)})

\* positions of the entries of one road's Vec that building b may take
UsableBy(entries, b) == {k \in 1 .. Len(entries) : entries[k][2] \in {None, b}}

Unreserved(entries) == {k \in 1 .. Len(entries) : entries[k][2] = None}

Without(entries, k) ==
    [j \in 1 .. (Len(entries) - 1) |-> IF j < k THEN entries[j] ELSE entries[j + 1]]

\* the search for b on mapping `before` had exactly one candidate: entry k of
\* reachable road r, unreserved, with no usable spot on any other reachable
\* road, the building's own road included
OnlyCandidate(b, before, r, k) ==
    /\ r \in Reachable(b)
    /\ r # building_to_road(b)
    /\ UsableBy(before[building_to_road(b)], b) = {}
    /\ Unreserved(before[r]) = {k}
    /\ \A r2 \in Reachable(b) \ {r} : UsableBy(before[r2], b) = {}

NoCandidate(b, before) == \A r \in Reachable(b) : UsableBy(before[r], b) = {}

\* C7: when the own road of B has no usable spot and exactly one unreserved
\* spot lies on a reachable road (no other reachable road having a usable
\* spot), find_spot_near_building(B) returns that spot and removes it from the
\* mapping; when no reachable road has a spot usable by B it returns none and
\* leaves the mapping unchanged.
C7_SearchFindsOnlySpot ==
    last_search # <<>> =>
        LET s == last_search[1] IN
        /\ \A r \in Roads : \A k \in 1 .. Len(s.before[r]) :
              OnlyCandidate(s.b, s.before, r, k) =>
                  /\ s.spot = s.before[r][k][1]
                  /\ open_spots_per_road = [s.before EXCEPT ![r] = Without(@, k)]
        /\ NoCandidate(s.b, s.before) =>
              /\ s.spot = NoSpot
              /\ open_spots_per_road = s.before

\* a search for building 1 that passes road 2, which offers only the private
\* spot of building 2, and takes the single unreserved spot of road 3
C7_Witness ==
    /\ last_search # <<>>
    /\ last_search[1].b = 1
    /\ road_links = {{1, 2}, {2, 3}}
    /\ Len(last_search[1].before[2]) = 1
    /\ last_search[1].before[2][1][2] = 2
    /\ \E k \in 1 .. Len(last_search[1].before[3]) :
          /\ OnlyCandidate(1, last_search[1].before, 3, k)
          /\ last_search[1].spot = last_search[1].before[3][k][1]
    /\ Len(open_spots_per_road[3]) = Len(last_search[1].before[3]) - 1

\* the free spots a car of building b can be given: on a reachable road, and
\* unreserved or reserved for b
SpotsFor(b) ==
    {k \in 1 .. Len(all_spots) :
        /\ spot_road(all_spots[k]) \in Reachable(b)
        /\ spot_restriction(all_spots[k]) \in {None, b}}

\* C8: when all N cars need a spot at one building and K < N usable spots are
\* reachable from its road, exactly the first K cars of the list are seeded
\* and one warning reports K of N.
C8_SeedsFirstK ==
    (seed_returned /\ parked_cars # <<>>) =>
        LET b == parked_cars[1]
            N == Len(parked_cars)
            K == Cardinality(SpotsFor(b))
        IN  ((\A i \in 1 .. N : parked_cars[i] = b) /\ K < N) =>
                /\ seeded = K
                /\ Len(sim_parked) = K
                /\ \A i \in 1 .. K : sim_parked[i][1] = i
                /\ warnings = <<[seeded |-> K, total |-> N]>>

\* three cars of building 1, two reachable usable spots, a private spot of
\* building 2 within reach: two cars seeded
C8_Witness ==
    /\ seed_returned
    /\ parked_cars = <<1, 1, 1>>
    /\ Cardinality(SpotsFor(1)) = 2
    /\ 2 \in Reachable(1)
    /\ bldg_parking[2] = [kind |-> "Private", n |-> 1]
    /\ seeded = 2
    /\ warnings = <<[seeded |-> 2, total |-> 3]>>

\* the base state seed_parked_cars was entered with, if it has forked once per road
EntryBase == CHOOSE s \in 0 .. 15 : Advance(s, Cardinality(Roads)) = base_rng

\* the sub-stream of road r: a function of the entry state and of r alone
StreamOf(r) == (Advance(EntryBase, r) + 8) % 16

\* C9: one fork of the base stream is taken per road, in road order, whether
\* or not the road has spots, so the sub-stream that shuffles a road's spots,
\* and the shuffled order, depend on the entry state of the base stream, the
\* road and its own spots only, never on the spots of other roads.
C9_ForkPerRoad ==
    (pk_pc = "cars" /\ car_i = 1) =>
        /\ Len(fork_log) = Cardinality(Roads)
        /\ \A r \in Roads :
              /\ fork_log[r].road = r
              /\ fork_log[r].base = Advance(EntryBase, r - 1)
              /\ fork_log[r].stream = StreamOf(r)
              /\ open_spots_per_road[r] = shuffle(group_spots(all_spots)[r], StreamOf(r))

\* road 2 has no spot, and the two spots of road 3 were swapped by the shuffle
\* with the third sub-stream
C9_Witness ==
    /\ pk_pc = "cars"
    /\ car_i = 1
    /\ group_spots(all_spots)[2] = <<>>
    /\ Len(open_spots_per_road[3]) = 2
    /\ open_spots_per_road[3] # group_spots(all_spots)[3]
    /\ fork_log[3].base = Advance(EntryBase, 2)

\* C10: no spot is handed to two cars, no car is seeded twice, a spot handed
\* out is no longer in the open-spots mapping, and the seeded cars never
\* outnumber the spots that existed.
C10_ExclusiveSpots ==
    pk_pc = "cars" =>
        /\ \A i \in 1 .. Len(sim_parked) : \A j \in 1 .. Len(sim_parked) :
              i # j => (sim_parked[i][1] # sim_parked[j][1]
                        /\ sim_parked[i][2] # sim_parked[j][2])
        /\ \A i \in 1 .. Len(sim_parked) :
              /\ \E k \in 1 .. Len(all_spots) : all_spots[k] = sim_parked[i][2]
              /\ \A r \in Roads : \A k \in 1 .. Len(open_spots_per_road[r]) :
                    open_spots_per_road[r][k][1] # sim_parked[i][2]
        /\ seeded = Len(sim_parked)
        /\ seeded <= Len(all_spots)

\* three cars seeded, two of them on the same road
C10_Witness ==
    /\ seed_returned
    /\ Len(sim_parked) = 3
    /\ spot_road(sim_parked[1][2]) = spot_road(sim_parked[2][2])
    /\ sim_parked[1][2] # sim_parked[2][2]

----------------------------------------------------------------------------
\* positions of the entries of one road's Vec reserved for building b
ReservedFor(entries, b) == {k \in 1 .. Len(entries) : entries[k][2] = b}

\* C14: the spot a search for B returns is entry k of some road r of the
\* mapping it started from, and is removed from it; the entry is reserved for
\* B or unreserved, never reserved for another building; it is reserved for B
\* whenever road r holds an entry reserved for B, wherever the unreserved
\* entries stand in the Vec; and the search ends with none only when no
\* reachable road offers a usable entry, so roads offering only spots of other
\* buildings are passed over.
C14_PrivateFirst ==
    last_search # <<>> =>
        LET s == last_search[1] IN
        /\ s.spot # NoSpot =>
              \E r \in Roads : \E k \in 1 .. Len(s.before[r]) :
                  /\ s.before[r][k][1] = s.spot
                  /\ open_spots_per_road = [s.before EXCEPT ![r] = Without(@, k)]
                  /\ s.before[r][k][2] \in {None, s.b}
                  /\ ReservedFor(s.before[r], s.b) # {} => s.before[r][k][2] = s.b
                  /\ \A j \in 1 .. (k - 1) : s.before[r][j][2] # s.before[r][k][2]
        /\ (s.spot = NoSpot) = NoCandidate(s.b, s.before)

\* the Vec of road 1 held an unreserved spot ahead of the private spot of
\* building 1, and the search for building 1 took the private spot
C14_Witness ==
    /\ last_search # <<>>
    /\ last_search[1].b = 1
    /\ Len(last_search[1].before[1]) = 2
    /\ last_search[1].before[1][1][2] = None
    /\ last_search[1].before[1][2][2] = 1
    /\ last_search[1].spot = last_search[1].before[1][2][1]
    /\ open_spots_per_road[1] = <<last_search[1].before[1][1]>>

\* some reachable road still offers the car of building b a usable entry
StillUsable(b) == \E r \in Reachable(b) : UsableBy(open_spots_per_road[r], b) # {}

\* C15: while no car has failed no warning is emitted; once a car has failed,
\* the failing search is the last search made and the mapping is as that
\* search found it, the seeded cars are exactly the cars before the failing
\* one, and exactly one warning reports their number and the total, whatever
\* spots later cars could have used.
C15_MonotonicStop ==
    pk_pc = "cars" =>
        /\ ok => warnings = <<>>
        /\ ~ok =>
              LET s == last_search[1] IN
              /\ s.spot = NoSpot
              /\ s.car < car_i
              /\ open_spots_per_road = s.before
              /\ seeded = s.car - 1
              /\ Len(sim_parked) = s.car - 1
              /\ \A i \in 1 .. Len(sim_parked) : sim_parked[i][1] = i
              /\ warnings = <<[seeded |-> s.car - 1, total |-> Len(parked_cars)]>>

\* the first car failed, and the loop has passed a later car that a reachable
\* spot was still open for
C15_Witness ==
    /\ seed_returned
    /\ ~ok
    /\ last_search[1].car = 1
    /\ Len(parked_cars) = 3
    /\ parked_cars[3] # parked_cars[1]
    /\ StillUsable(parked_cars[3])
    /\ sim_parked = <<>>

----------------------------------------------------------------------------
(* find_spot_near_building, one loop iteration at a time *)

\* the block before the loop: the queue and the visited set hold the start road
FindSpotStart ==
    /\ fs_pc = "call"
    /\ LET start == building_to_road(fs_b)
       IN  /\ roads_queue' = push_back(<<>>, <<start>>)
           /\ visited' = {start}
           /\ enqueued' = [enqueued EXCEPT ![start] = @ + 1]
    /\ fs_pc' = "loop"
    /\ UNCHANGED <<fs_b, fs_before, dequeued>>
    /\ UNCHANGED <<personVars, gvVars, mapVars, busVars, parkVars, instVars>>

\* one iteration of the loop: pop_front()? returns None on the empty queue;
\* else the road's Vec is tried, and either a spot is returned or the
\* unvisited next roads are pushed
FindSpotLoop ==
    /\ fs_pc = "loop"
    /\ IF roads_queue = <<>>
       THEN /\ last_search' = <<[car |-> 0, b |-> fs_b, before |-> fs_before,
                                 spot |-> NoSpot]>>
            /\ fs_pc' = "returned"
            /\ UNCHANGED <<roads_queue, visited, enqueued, dequeued, open_spots_per_road>>
       ELSE LET r == Head(roads_queue)
                idx == pick(open_spots_per_road[r], fs_b)
                pushed == unvisited(r, visited)
            IN  /\ dequeued' = [dequeued EXCEPT ![r] = @ + 1]
                /\ IF idx # 0
                   THEN /\ last_search' = <<[car |-> 0, b |-> fs_b, before |-> fs_before,
                                             spot |-> open_spots_per_road[r][idx][1]]>>
                        /\ open_spots_per_road' =
                               [open_spots_per_road EXCEPT ![r] = remove(@, idx)]
                        /\ roads_queue' = Tail(roads_queue)
                        /\ fs_pc' = "returned"
                        /\ UNCHANGED <<visited, enqueued>>
                   ELSE /\ roads_queue' = push_back(Tail(roads_queue), pushed)
                        /\ visited' = visited \cup {pushed[k] : k \in 1 .. Len(pushed)}
                        /\ enqueued' =
                               [x \in Roads |->
                                   enqueued[x] +
                                   Cardinality({k \in 1 .. Len(pushed) : pushed[k] = x})]
                        /\ UNCHANGED <<fs_pc, last_search, open_spots_per_road>>
    /\ UNCHANGED <<fs_b, fs_before>>
    /\ UNCHANGED <<personVars, gvVars, mapVars, busVars, instVars>>
    /\ UNCHANGED <<parked_cars, base_rng, pk_pc, car_i, ok, seeded, sim_parked, warnings,
                   fork_log, blackholed>>

----------------------------------------------------------------------------
(* Specification SpecSearch: the first call of find_spot_near_building of a  *)
(* run of seed_parked_cars, on every graph of four roads, with the mapping   *)
(* as the grouping and the per-road shuffles leave it. SpecSearchLive adds   *)
(* that the loop, sequential code, always takes its next iteration.          *)

Links == {e \in {{x, y} : x, y \in Roads} : Cardinality(e) = 2}

AllRoadGraphs == SUBSET Links

InitSearch ==
    /\ trips = <<>>
    /\ sched_result = "unchecked"
    /\ gvIdle
    /\ road_links \in AllRoadGraphs
    /\ bldg_parking \in [Buildings -> {[kind |-> "Private", n |-> 0],
                                        [kind |-> "Private", n |-> 1]}]
    /\ \E onstreet \in [Roads -> 0 .. 1] :
         all_spots = FreeSpots(onstreet, bldg_parking, 0)
    /\ infinite_parking = FALSE
    /\ blackholed_bldgs = {}
    /\ blackholed = 0
    /\ parked_cars = <<>>
    /\ \E seed \in Seeds :
         /\ open_spots_per_road = fork_roads(1, seed, group_spots(all_spots), <<>>).spots
         /\ base_rng = fork_roads(1, seed, group_spots(all_spots), <<>>).base
    /\ pk_pc = "idle"
    /\ car_i = 0
    /\ ok = TRUE
    /\ seeded = 0
    /\ sim_parked = <<>>
    /\ warnings = <<>>
    /\ fork_log = <<>>
    /\ last_search = <<>>
    /\ instIdle
    /\ fs_pc = "call"
    /\ fs_b \in Buildings
    /\ fs_before = open_spots_per_road
    /\ roads_queue = <<>>
    /\ visited = {}
    /\ enqueued = [r \in Roads |-> 0]
    /\ dequeued = [r \in Roads |-> 0]

NextSearch == FindSpotStart \/ FindSpotLoop

SpecSearch == InitSearch /\ [][NextSearch]_vars

SpecSearchLive == SpecSearch /\ WF_vars(NextSearch)

\* the loop run step by step returns what the loop run at once returns
SearchAgrees ==
    fs_pc = "returned" =>
        /\ last_search[1].spot = find_spot_near_building(fs_b, fs_before).spot
        /\ open_spots_per_road = find_spot_near_building(fs_b, fs_before).spots

----------------------------------------------------------------------------
\* the roads within n hops of the road of building b
RECURSIVE Within(_, _)
Within(b, n) ==
    IF n = 0 THEN {building_to_road(b)}
    ELSE Within(b, n - 1) \cup UNION {get_next_roads(r) : r \in Within(b, n - 1)}

\* hop distance of reachable road r from the road of building b
Dist(b, r) == CHOOSE n \in 0 .. Cardinality(Roads) :
                  r \in Within(b, n) /\ (n = 0 \/ r \notin Within(b, n - 1))

\* the reachable roads offering b a usable entry in mapping `before`
Candidates(b, before) == {r \in Reachable(b) : UsableBy(before[r], b) # {}}

\* C16: the spot a search for B returns lies on a reachable road offering B a
\* usable entry, and no such road is fewer hops away from B's road; so it
\* lies on B's own road when that road offers a usable entry.
C16_NearestRoad ==
    (last_search # <<>> /\ last_search[1].spot # NoSpot) =>
        LET s == last_search[1]
            r == spot_road(s.spot)
        IN  /\ r \in Candidates(s.b, s.before)
            /\ \A r2 \in Candidates(s.b, s.before) : Dist(s.b, r) <= Dist(s.b, r2)
            /\ building_to_road(s.b) \in Candidates(s.b, s.before) =>
                  r = building_to_road(s.b)

\* roads 3 and 4 both offer a spot, road 3 next to the building's road and
\* road 4 two hops away behind road 2, which was visited first and offers
\* nothing: the spot of road 3 is returned
C16_Witness ==
    /\ fs_pc = "returned"
    /\ fs_b = 1
    /\ road_links = {{1, 2}, {1, 3}, {2, 4}}
    /\ Candidates(1, fs_before) = {3, 4}
    /\ spot_road(last_search[1].spot) = 3
    /\ dequeued = [r \in Roads |-> IF r = 4 THEN 0 ELSE 1]

\* every road is pushed at most once and popped at most once, and only after
\* it was pushed; the queue holds visited roads, each once
EachRoadOnce ==
    fs_pc \in {"loop", "returned"} =>
        /\ \A r \in Roads : enqueued[r] <= 1 /\ dequeued[r] <= enqueued[r]
        /\ \A r \in Roads : (r \in visited) = (enqueued[r] = 1)
        /\ \A i \in 1 .. Len(roads_queue) :
              /\ roads_queue[i] \in visited
              /\ dequeued[roads_queue[i]] = 0
              /\ \A j \in 1 .. Len(roads_queue) : i # j => roads_queue[i] # roads_queue[j]

\* a search that found no usable spot has popped every reachable road once,
\* emptied the queue, left the mapping alone and returned none
ExhaustedIsNone ==
    (fs_pc = "returned" /\ NoCandidate(fs_b, fs_before)) =>
        /\ last_search[1].spot = NoSpot
        /\ roads_queue = <<>>
        /\ visited = Reachable(fs_b)
        /\ \A r \in Roads : dequeued[r] = (IF r \in Reachable(fs_b) THEN 1 ELSE 0)
        /\ open_spots_per_road = fs_before

\* C17: on every road graph, with or without cycles, each road is enqueued
\* and dequeued at most once, a search whose frontier is exhausted without a
\* usable spot ends with none, and every call returns.
C17_Terminates ==
    /\ [](EachRoadOnce /\ ExhaustedIsNone)
    /\ (fs_pc = "call") ~> (fs_pc = "returned")

\* the search went round the triangle of roads 1, 2 and 3, with road 4
\* hanging off it, found nothing, and returned none after four iterations
C17_Witness ==
    /\ fs_pc = "returned"
    /\ {{1, 2}, {2, 3}, {1, 3}} \subseteq road_links
    /\ 4 \in Reachable(fs_b)
    /\ last_search[1].spot = NoSpot
    /\ dequeued = [r \in Roads |-> 1]

----------------------------------------------------------------------------
(* Specification SpecInfinite: seed_parked_cars in infinite parking mode,    *)
(* for every list of up to MaxCars cars and every set of buildings without   *)
(* reachable parking.                                                        *)

InitInfinite ==
    /\ trips = <<>>
    /\ sched_result = "unchecked"
    /\ gvIdle
    /\ road_links = {}
    /\ all_spots = <<>>
    /\ bldg_parking = [b \in Buildings |-> [kind |-> "Private", n |-> 0]]
    /\ infinite_parking = TRUE
    /\ blackholed_bldgs \in SUBSET Buildings
    /\ blackholed = 0
    /\ \E n \in 0 .. MaxCars : parked_cars \in [1 .. n -> Buildings]
    /\ base_rng \in Seeds
    /\ pk_pc = "entry"
    /\ open_spots_per_road = <<>>
    /\ car_i = 0
    /\ ok = TRUE
    /\ seeded = 0
    /\ sim_parked = <<>>
    /\ warnings = <<>>
    /\ fork_log = <<>>
    /\ last_search = <<>>
    /\ instIdle
    /\ searchIdle

NextInfinite == SeedInfiniteEntry \/ SeedInfiniteCar \/ SeedInfiniteReturn

SpecInfinite == InitInfinite /\ [][NextInfinite]_vars

\* the cars of the list the loop has gone through that were seeded
SeededCars == {sim_parked[k][1] : k \in 1 .. Len(sim_parked)}

\* C18: in infinite parking mode every car the loop has passed was attempted:
\* it is seeded, in an off-street spot of its own building that no other car
\* holds, or it is counted as blackholed, whatever happened to the cars before;
\* seeded and blackholed cars add up to the cars passed, hence to the whole
\* list on return; and on return there is one warning, carrying the count, if
\* the count is positive, and none otherwise.
C18_InfiniteParking ==
    pk_pc \in {"infinite", "returned"} =>
        /\ SeededCars \subseteq 1 .. (car_i - 1)
        /\ \A i \in 1 .. (car_i - 1) :
              (i \in SeededCars) = (parked_cars[i] \notin blackholed_bldgs)
        /\ \A k \in 1 .. Len(sim_parked) :
              /\ sim_parked[k][2].kind = "Offstreet"
              /\ sim_parked[k][2].at = parked_cars[sim_parked[k][1]]
              /\ \A j \in 1 .. Len(sim_parked) :
                    j # k => (sim_parked[j][1] # sim_parked[k][1]
                              /\ sim_parked[j][2] # sim_parked[k][2])
        /\ Len(sim_parked) + blackholed = car_i - 1
        /\ pk_pc = "infinite" => warnings = <<>>
        /\ pk_pc = "returned" =>
              /\ Len(sim_parked) + blackholed = Len(parked_cars)
              /\ warnings = (IF blackholed > 0 THEN <<[blackholed |-> blackholed]>> ELSE <<>>)

\* the first car was blackholed and the two cars after it were seeded at the
\* same building
C18_Witness ==
    /\ pk_pc = "returned"
    /\ Len(parked_cars) = 3
    /\ blackholed = 1
    /\ SeededCars = {2, 3}
    /\ parked_cars[2] = parked_cars[3]
    /\ warnings = <<[blackholed |-> 1]>>

----------------------------------------------------------------------------
(* SpawnTrip::new and SpawnTrip::to_trip_spec *)

\* the None of Option<DrivingGoal>, Option<SidewalkSpot> and Option<SpawnTrip>
Nothing == [kind |-> "None", id |-> 0]

\* to.driving_goal(constraints, map)
driving_goal(to, constraints) ==
    IF <<to, constraints>> \in net.no_goal THEN Nothing ELSE to

\* map.get_i(i).some_outgoing_road(map): the directed road leaving border i
some_outgoing_road(i) ==
    IF i \in net.outgoing THEN [kind |-> "DirectedRoad", id |-> i] ELSE Nothing

\* from.start_sidewalk_spot(map) and to.end_sidewalk_spot(map)
sidewalk_spot(endpoint) ==
    IF endpoint \in net.no_sidewalk THEN Nothing ELSE endpoint

\* map.should_use_transit(start.sidewalk_pos, goal.sidewalk_pos)
should_use_transit(start, goal) ==
    IF <<start, goal>> \in net.transit THEN [kind |-> "BusRoute", id |-> 1] ELSE Nothing

\* dr.lanes(constraints, map)
lanes(dr, constraints) == [k \in 1 .. net.lanes[constraints] |-> [kind |-> "Lane", id |-> k]]

\* SpawnTrip::new for TripMode::Drive (is_bike false) and TripMode::Bike (is_bike true)
new_vehicle_trip(from, to, is_bike) ==
    LET constraints == IF is_bike THEN "Bike" ELSE "Car"
    IN  IF from.kind = "Bldg"
        THEN IF driving_goal(to, constraints) = Nothing THEN Nothing
             ELSE [kind |-> IF is_bike THEN "UsingBike" ELSE "UsingParkedCar",
                   start |-> from.id, goal |-> driving_goal(to, constraints)]
        ELSE IF from.kind = "Border"
        THEN IF some_outgoing_road(from.id) = Nothing THEN Nothing
             ELSE IF driving_goal(to, constraints) = Nothing THEN Nothing
             ELSE [kind |-> "FromBorder", dr |-> some_outgoing_road(from.id),
                   goal |-> driving_goal(to, constraints), is_bike |-> is_bike]
        ELSE IF driving_goal(to, "Bike") = Nothing THEN Nothing
             ELSE [kind |-> "VehicleAppearing", start |-> from,
                   goal |-> driving_goal(to, "Bike"), is_bike |-> is_bike]

SpawnTrip_new_strict(from, to, mode) ==
    IF mode = "Drive" THEN new_vehicle_trip(from, to, FALSE)
    ELSE IF mode = "Bike" THEN new_vehicle_trip(from, to, TRUE)
    ELSE IF sidewalk_spot(from) = Nothing \/ sidewalk_spot(to) = Nothing THEN Nothing
    ELSE IF mode = "Walk"
    THEN [kind |-> "JustWalking", start |-> sidewalk_spot(from), goal |-> sidewalk_spot(to)]
    ELSE IF should_use_transit(sidewalk_spot(from), sidewalk_spot(to)) # Nothing
    THEN [kind |-> "UsingTransit", start |-> sidewalk_spot(from), goal |-> sidewalk_spot(to),
          route |-> should_use_transit(sidewalk_spot(from), sidewalk_spot(to))]
    ELSE Nothing

\* SpawnTrip::new
SpawnTrip_new(from, to, mode) ==
    IF mode = "Drive" THEN new_vehicle_trip(from, to, FALSE)
    ELSE IF mode = "Bike" THEN new_vehicle_trip(from, to, TRUE)
    ELSE IF sidewalk_spot(from) = Nothing \/ sidewalk_spot(to) = Nothing THEN Nothing
    ELSE IF mode = "Transit" /\ should_use_transit(sidewalk_spot(from), sidewalk_spot(to)) # Nothing
    THEN [kind |-> "UsingTransit", start |-> sidewalk_spot(from), goal |-> sidewalk_spot(to),
          route |-> should_use_transit(sidewalk_spot(from), sidewalk_spot(to))]
    ELSE [kind |-> "JustWalking", start |-> sidewalk_spot(from), goal |-> sidewalk_spot(to)]

\* lanes.choose(rng): one draw for the index, None on an empty slice
choose(slice, r) == IF slice = <<>> THEN Nothing ELSE slice[(NextRng(r) % Len(slice)) + 1]

\* the panic of Option::unwrap on None
UnwrapNone == [kind |-> "Panic", error |-> "called Option::unwrap() on a None value"]

\* a TripSpec built with use_vehicle.unwrap(): the panic when there is no vehicle
unwrap(use_vehicle, spec) == IF use_vehicle = None THEN UnwrapNone ELSE spec

\* SpawnTrip::to_trip_spec
to_trip_spec(trip, use_vehicle, retry_if_no_room, r) ==
    IF trip.kind = "VehicleAppearing"
    THEN unwrap(use_vehicle,
                [kind |-> "VehicleAppearing", start_pos |-> trip.start, goal |-> trip.goal,
                 use_vehicle |-> use_vehicle, retry_if_no_room |-> retry_if_no_room])
    ELSE IF trip.kind = "FromBorder"
    THEN LET l == choose(lanes(trip.dr, IF trip.is_bike THEN "Bike" ELSE "Car"), r)
         IN  IF l # Nothing
             THEN unwrap(use_vehicle,
                         [kind |-> "VehicleAppearing", start_pos |-> l, goal |-> trip.goal,
                          use_vehicle |-> use_vehicle,
                          retry_if_no_room |-> retry_if_no_room])
             ELSE [kind |-> "SpawningFailure", use_vehicle |-> use_vehicle,
                   error |-> "no lanes"]
    ELSE IF trip.kind = "UsingParkedCar"
    THEN unwrap(use_vehicle,
                [kind |-> "UsingParkedCar", start_bldg |-> trip.start, goal |-> trip.goal,
                 car |-> use_vehicle])
    ELSE IF trip.kind = "UsingBike"
    THEN unwrap(use_vehicle,
                [kind |-> "UsingBike", bike |-> use_vehicle, start |-> trip.start,
                 goal |-> trip.goal])
    ELSE trip

----------------------------------------------------------------------------
(* Scenario::instantiate_without_retries *)

\* Scenario::rand_ped_speed: one gen_range draw
rand_ped_speed(r) == NextRng(r)

RECURSIVE count_vehicles(_)
count_vehicles(persons) ==
    IF persons = <<>> THEN 0
    ELSE Len(Head(persons).vehicles) + count_vehicles(Tail(persons))

\* sim.new_person: the person with one Vehicle per spec, CarIDs from the sim's counter
new_person(persons, id, ped_speed, specs) ==
    Append(persons,
           [id |-> id, ped_speed |-> ped_speed,
            vehicles |-> [k \in 1 .. Len(specs) |->
                            [id |-> count_vehicles(persons) + k, spec |-> specs[k]]]])

\* maybe_idx.map(|idx| person.vehicles[idx].id)
vehicle_id(person, maybe_idx) ==
    IF maybe_idx = None THEN None ELSE person.vehicles[maybe_idx].id

\* the TripInfo pushed with a trip
trip_info(t) ==
    [departure |-> t.depart, mode |-> t.mode, start |-> t.from, end |-> t.to,
     cancellation_reason |-> IF t.cancelled THEN "cancelled by ScenarioModifier" ELSE "none"]

trip_spec_bare(t, use_vehicle, tmp_rng) ==
    IF SpawnTrip_new(t.from, t.to, t.mode) # Nothing
    THEN to_trip_spec(SpawnTrip_new(t.from, t.to, t.mode), use_vehicle, TRUE, tmp_rng)
    ELSE [kind |-> "SpawningFailure", use_vehicle |-> None,
          error |-> "unknown spawning error"]

\* the TripSpec of one trip: SpawnTrip::new, then to_trip_spec or a SpawningFailure
trip_spec(t, use_vehicle, tmp_rng) ==
    IF SpawnTrip_new(t.from, t.to, t.mode) # Nothing
    THEN to_trip_spec(SpawnTrip_new(t.from, t.to, t.mode), use_vehicle, TRUE, tmp_rng)
    ELSE [kind |-> "SpawningFailure", use_vehicle |-> use_vehicle,
          error |-> "unknown spawning error"]

RECURSIVE trip_tuples_fork_on_success(_, _, _, _, _)
trip_tuples_fork_on_success(person, ts, choices, k, r) ==
    IF k > Len(ts) \/ k > Len(choices)
    THEN [tuples |-> <<>>, rng |-> r, panicked |-> FALSE]
    ELSE LET forked == SpawnTrip_new(ts[k].from, ts[k].to, ts[k].mode) # Nothing
             spec == trip_spec(ts[k], vehicle_id(person, choices[k]), fork_rng(r).stream)
             rest == trip_tuples_fork_on_success(person, ts, choices, k + 1,
                                                 IF forked THEN fork_rng(r).base ELSE r)
         IN  IF spec = UnwrapNone
             THEN [tuples |-> <<>>, rng |-> fork_rng(r).base, panicked |-> TRUE]
             ELSE [tuples |-> <<<<person.id, spec, trip_info(ts[k])>>>> \o rest.tuples,
                   rng |-> rest.rng, panicked |-> rest.panicked]

\* the loop for (t, maybe_idx) in p.trips.iter().zip(vehicle_foreach_trip), from
\* trip k on: one fork of rng per trip, one tuple per trip; a panic of
\* to_trip_spec ends the loop
RECURSIVE trip_tuples(_, _, _, _, _)
trip_tuples(person, ts, choices, k, r) ==
    IF k > Len(ts) \/ k > Len(choices)
    THEN [tuples |-> <<>>, rng |-> r, panicked |-> FALSE]
    ELSE LET spec == trip_spec(ts[k], vehicle_id(person, choices[k]), fork_rng(r).stream)
             rest == trip_tuples(person, ts, choices, k + 1, fork_rng(r).base)
         IN  IF spec = UnwrapNone
             THEN [tuples |-> <<>>, rng |-> fork_rng(r).base, panicked |-> TRUE]
             ELSE [tuples |-> <<<<person.id, spec, trip_info(ts[k])>>>> \o rest.tuples,
                   rng |-> rest.rng, panicked |-> rest.panicked]

push_front(vec, tuples) == tuples \o vec

\* schedule_trips.push(..) for each tuple in turn
push_all(vec, tuples) == vec \o tuples

\* map.all_bus_routes()
all_bus_routes == <<[full_name |-> "A"], [full_name |-> "B"], [full_name |-> "C"]>>

seed_bus_routes_all(only, routes, k) == SubSeq(routes, k, Len(routes))

\* the two loops for route in map.all_bus_routes(), from route k on: the
\* routes passed to sim.seed_bus_route, in order
RECURSIVE seed_bus_routes(_, _, _)
seed_bus_routes(only, routes, k) ==
    IF k > Len(routes) THEN <<>>
    ELSE IF only # NoRestriction
    THEN IF routes[k].full_name \in only.routes
         THEN <<routes[k]>> \o seed_bus_routes(only, routes, k + 1)
         ELSE seed_bus_routes(only, routes, k + 1)
    ELSE <<routes[k]>> \o seed_bus_routes(only, routes, k + 1)

\* entry of instantiate_without_retries: the transit routes are seeded
InstSeedBuses ==
    /\ inst_pc = "buses"
    /\ sim_buses' = sim_buses \o seed_bus_routes(only_seed_buses, all_bus_routes, 1)
    /\ inst_pc' = "people"
    /\ UNCHANGED <<people, net, p_i, schedule_trips, inst_parked_cars, sim_people, pending,
                   results, reordered, spawner_trips, sim_flushed, only_seed_buses>>
    /\ UNCHANGED <<personVars, gvVars, mapVars, searchVars, parkVars>>

\* one iteration of for p in &self.people
InstPerson ==
    /\ inst_pc = "people"
    /\ p_i \in 1 .. Len(people)
    /\ LET p == people[p_i] IN
       IF check_schedule(p.trips) # "Ok"
       THEN /\ inst_pc' = "panicked"
            /\ UNCHANGED <<rng, p_i, schedule_trips, inst_parked_cars, sim_people>>
       ELSE LET gv == get_vehicles(p.trips, rng)
                sim2 == new_person(sim_people, p.id, rand_ped_speed(gv.rng), gv.vehicle_specs)
                person == sim2[Len(sim2)]
                made == trip_tuples(person, p.trips, gv.vehicle_foreach_trip, 1,
                                    NextRng(gv.rng))
            IN  /\ sim_people' = sim2
                /\ inst_parked_cars' =
                       inst_parked_cars \o
                       [k \in 1 .. Len(gv.cars_initially_parked_at) |->
                           <<person.vehicles[gv.cars_initially_parked_at[k][1]].id,
                             gv.cars_initially_parked_at[k][2]>>]
                /\ schedule_trips' = push_all(schedule_trips, made.tuples)
                /\ rng' = made.rng
                /\ p_i' = (IF made.panicked THEN p_i ELSE p_i + 1)
                /\ inst_pc' = (IF made.panicked THEN "unwrap_none" ELSE inst_pc)
    /\ UNCHANGED <<people, net, pending, results, reordered, spawner_trips, sim_flushed>>
    /\ UNCHANGED <<personVars, gv_i, vehicle_specs, cars_initially_parked_at,
                   vehicle_foreach_trip, bike_idx, car_locations, mapVars, busVars, searchVars, parkVars>>

\* TripSpawner::schedule_trip on one tuple
schedule_trip(tuple) == [person |-> tuple[1], spec |-> tuple[2], info |-> tuple[3]]

\* timer.parallelize hands every request to the workers
InstParallelize ==
    /\ inst_pc = "people"
    /\ p_i = Len(people) + 1
    /\ inst_pc' = "parallel"
    /\ pending' = 1 .. Len(schedule_trips)
    /\ results' = [k \in 1 .. Len(schedule_trips) |-> Nothing]
    /\ UNCHANGED <<people, net, p_i, schedule_trips, inst_parked_cars, sim_people, reordered,
                   spawner_trips, sim_flushed>>
    /\ UNCHANGED <<personVars, gvVars, mapVars, busVars, searchVars, parkVars>>

\* a worker finishes request k: its result goes to slot k
WorkerFinishes(k) ==
    /\ inst_pc = "parallel"
    /\ k \in pending
    /\ results' = [results EXCEPT ![k] = schedule_trip(schedule_trips[k])]
    /\ pending' = pending \ {k}
    /\ reordered' = (reordered \/ \E j \in pending : j < k)
    /\ UNCHANGED <<people, net, inst_pc, p_i, schedule_trips, inst_parked_cars, sim_people,
                   spawner_trips, sim_flushed>>
    /\ UNCHANGED <<personVars, gvVars, mapVars, busVars, searchVars, parkVars>>

\* every worker is done: spawner.schedule_trips(results), parked_cars.shuffle(rng),
\* and seed_parked_cars is entered
InstScheduleTrips ==
    /\ inst_pc = "parallel"
    /\ pending = {}
    /\ spawner_trips' = spawner_trips \o results
    /\ inst_parked_cars' = shuffle(inst_parked_cars, rng)
    /\ parked_cars' = [k \in 1 .. Len(inst_parked_cars) |->
                          shuffle(inst_parked_cars, rng)[k][2]]
    /\ rng' = Advance(rng, IF Len(inst_parked_cars) < 2 THEN 0 ELSE Len(inst_parked_cars) - 1)
    /\ base_rng' = rng'
    /\ pk_pc' = "entry"
    /\ inst_pc' = "parking"
    /\ UNCHANGED <<people, net, p_i, schedule_trips, sim_people, pending, results, reordered,
                   sim_flushed>>
    /\ UNCHANGED <<personVars, gv_i, vehicle_specs, cars_initially_parked_at,
                   vehicle_foreach_trip, bike_idx, car_locations, mapVars, busVars, searchVars>>
    /\ UNCHANGED <<open_spots_per_road, car_i, ok, seeded, sim_parked, warnings, fork_log,
                   last_search, blackholed>>

\* seed_parked_cars has returned: sim.flush_spawner(spawner, map, timer)
InstFlush ==
    /\ inst_pc = "parking"
    /\ seed_returned
    /\ sim_flushed' = spawner_trips
    /\ inst_pc' = "done"
    /\ UNCHANGED <<people, net, p_i, schedule_trips, inst_parked_cars, sim_people, pending,
                   results, reordered, spawner_trips>>
    /\ UNCHANGED <<personVars, gvVars, mapVars, busVars, searchVars, parkVars>>

----------------------------------------------------------------------------
(* Specification SpecInstantiate: one run of instantiate_without_retries on *)
(* every scenario of up to MaxPeople persons taken from a catalogue of      *)
(* days, on three networks and two parking maps, constrained parking.       *)

WalkThenDrive ==
    <<IndividTrip(1, Bldg(1), Bldg(2), "Walk"), IndividTrip(2, Bldg(2), Bldg(1), "Drive")>>

BorderCommuter ==
    <<IndividTrip(1, Border(1), Bldg(1), "Drive"), IndividTrip(2, Bldg(1), Border(1), "Drive")>>

BikeThenTransit ==
    <<IndividTrip(1, Bldg(1), Bldg(2), "Bike"),
      [IndividTrip(2, Bldg(2), Bldg(1), "Transit") EXCEPT !.cancelled = TRUE]>>

Appearing == <<IndividTrip(1, SuddenlyAppear(1), Bldg(2), "Drive")>>

Driver == <<IndividTrip(1, Bldg(1), Bldg(2), "Drive")>>

Warping ==
    <<IndividTrip(1, Bldg(1), Bldg(2), "Walk"), IndividTrip(2, Bldg(1), Bldg(2), "Walk")>>

Unordered ==
    <<IndividTrip(2, Bldg(1), Bldg(2), "Walk"), IndividTrip(2, Bldg(2), Bldg(1), "Walk")>>

Days == {WalkThenDrive, BorderCommuter, BikeThenTransit, Appearing, Driver, Warping, Unordered}

\* every query succeeds; the border road has two car lanes and one bike lane
NetGood ==
    [no_goal |-> {},
     outgoing |-> {1},
     lanes |-> [c \in {"Car", "Bike"} |-> IF c = "Car" THEN 2 ELSE 1],
     no_sidewalk |-> {},
     transit |-> {<<Bldg(2), Bldg(1)>>}]

\* building 2 has no sidewalk and is no goal for cars, the border road has no
\* lane, no bus route is useful
NetPoor ==
    [no_goal |-> {<<Bldg(2), "Car">>},
     outgoing |-> {1},
     lanes |-> [c \in {"Car", "Bike"} |-> 0],
     no_sidewalk |-> {Bldg(2)},
     transit |-> {}]

\* the border has no outgoing road, building 2 is no goal for bikes, building
\* 1 has no sidewalk
NetCut ==
    [no_goal |-> {<<Bldg(2), "Bike">>},
     outgoing |-> {},
     lanes |-> [c \in {"Car", "Bike"} |-> 1],
     no_sidewalk |-> {Bldg(1)},
     transit |-> {}]

Nets == {NetGood, NetPoor, NetCut}

InitInstantiate ==
    /\ trips = <<>>
    /\ sched_result = "unchecked"
    /\ gv_i = 0
    /\ rng \in Seeds
    /\ vehicle_specs = <<>>
    /\ cars_initially_parked_at = <<>>
    /\ vehicle_foreach_trip = <<>>
    /\ bike_idx = None
    /\ car_locations = <<>>
    /\ road_links = {{1, 2}, {2, 3}}
    /\ bldg_parking = [b \in Buildings |-> [kind |-> "Private", n |-> 2 - b]]
    /\ \E n \in 0 .. 1 :
         all_spots = FreeSpots([r \in Roads |-> n], bldg_parking, 0)
    /\ infinite_parking \in BOOLEAN
    /\ blackholed_bldgs = (IF infinite_parking THEN {1} ELSE {})
    /\ blackholed = 0
    /\ parked_cars = <<>>
    /\ base_rng = 0
    /\ pk_pc = "idle"
    /\ open_spots_per_road = <<>>
    /\ car_i = 0
    /\ ok = TRUE
    /\ seeded = 0
    /\ sim_parked = <<>>
    /\ warnings = <<>>
    /\ fork_log = <<>>
    /\ last_search = <<>>
    /\ \E n \in 0 .. MaxPeople :
         \E days \in [1 .. n -> Days] :
           people = [i \in 1 .. n |-> [id |-> i - 1, trips |-> days[i]]]
    /\ net \in Nets
    /\ inst_pc = "buses"
    /\ p_i = 1
    /\ schedule_trips = <<>>
    /\ inst_parked_cars = <<>>
    /\ sim_people = <<>>
    /\ pending = {}
    /\ results = <<>>
    /\ reordered = FALSE
    /\ spawner_trips = <<>>
    /\ sim_flushed = <<>>
    /\ only_seed_buses = Only({})
    /\ sim_buses = <<>>
    /\ searchIdle

NextInstantiate ==
    \/ InstSeedBuses
    \/ InstPerson
    \/ InstParallelize
    \/ \E k \in 1 .. Len(schedule_trips) : WorkerFinishes(k)
    \/ InstScheduleTrips
    \/ SeedParkedCarsEntry
    \/ SeedParkedCar
    \/ SeedInfiniteEntry
    \/ SeedInfiniteCar
    \/ SeedInfiniteReturn
    \/ InstFlush

SpecInstantiate == InitInstantiate /\ [][NextInstantiate]_vars

----------------------------------------------------------------------------
\* the (person, trip) positions of the scenario from person i on, person by
\* person in scenario order and trip by trip within a person
RECURSIVE TripsInOrder(_)
TripsInOrder(i) ==
    IF i > Len(people) THEN <<>>
    ELSE [j \in 1 .. Len(people[i].trips) |-> <<i, j>>] \o TripsInOrder(i + 1)

\* C3: whatever the order in which the workers finish, the trips handed to the
\* simulator are the scheduled tuples in the order the sequential loop built
\* them: person by person in scenario order, trip by trip within a person.
C3_SubmittedInOrder ==
    inst_pc = "done" =>
        /\ Len(sim_flushed) = Len(TripsInOrder(1))
        /\ \A k \in 1 .. Len(sim_flushed) :
              LET i == TripsInOrder(1)[k][1]
                  j == TripsInOrder(1)[k][2]
              IN  /\ sim_flushed[k] = schedule_trip(schedule_trips[k])
                  /\ sim_flushed[k].person = people[i].id
                  /\ sim_flushed[k].info = trip_info(people[i].trips[j])

\* a finished run of two persons with two trips each in which some worker
\* finished before a worker holding an earlier request
C3_Witness ==
    /\ inst_pc = "done"
    /\ reordered
    /\ Len(people) = 2
    /\ Len(sim_flushed) = 4
    /\ sim_flushed[1].person # sim_flushed[4].person

----------------------------------------------------------------------------
\* number of tuples pushed by the persons before person i
Offset(i) == Len(TripsInOrder(1)) - Len(TripsInOrder(i))

AllValid == \A i \in 1 .. Len(people) : check_schedule(people[i].trips) = "Ok"

\* SpawnTrip::new has no result for trip t on the network: a walk or transit
\* trip with an endpoint without sidewalk, a drive or bike trip whose
\* destination is no driving goal or whose border has no outgoing road
ClassificationFails(t) ==
    IF t.mode \in {"Walk", "Transit"}
    THEN t.from \in net.no_sidewalk \/ t.to \in net.no_sidewalk
    ELSE \/ <<t.to, IF t.mode = "Bike" \/ t.from.kind = "SuddenlyAppear" THEN "Bike" ELSE "Car">>
              \in net.no_goal
         \/ t.from.kind = "Border" /\ t.from.id \notin net.outgoing

\* the road leaving the border of a drive or bike trip has no lane for it
NoLegalLane(t) ==
    /\ t.mode \in {"Drive", "Bike"}
    /\ t.from.kind = "Border"
    /\ net.lanes[IF t.mode = "Bike" THEN "Bike" ELSE "Car"] = 0

\* the id of the vehicle get_vehicles chose for trip j of person i, None if none
AllocatedVehicle(i, j) ==
    LET idx == get_vehicles(people[i].trips, 0).vehicle_foreach_trip[j]
    IN  IF idx = None THEN None ELSE sim_people[i].vehicles[idx].id

\* C11: when every person passes check_schedule, the run never aborts and
\* every trip of every handled person (cancelled ones included) has exactly
\* one trip spec, in place; the spec is a SpawningFailure exactly when the
\* classification fails or the border road has no legal lane, and then it
\* carries the vehicle allocated to the trip, if any; the finished run has
\* handed one spec per trip to the simulator.
C11_OneSpecPerTrip ==
    (inst_pc # "idle" /\ AllValid) =>
        /\ inst_pc # "panicked"
        /\ Len(schedule_trips) = Offset(p_i)
        /\ \A i \in 1 .. (p_i - 1) :
              \A j \in 1 .. Len(people[i].trips) :
                  LET t == people[i].trips[j]
                      tuple == schedule_trips[Offset(i) + j]
                  IN  /\ tuple[1] = people[i].id
                      /\ tuple[3].departure = t.depart
                      /\ (tuple[3].cancellation_reason # "none") = t.cancelled
                      /\ (tuple[2].kind = "SpawningFailure") =
                             (ClassificationFails(t) \/ NoLegalLane(t))
                      /\ tuple[2].kind = "SpawningFailure" =>
                             tuple[2].use_vehicle = AllocatedVehicle(i, j)
        /\ inst_pc = "done" => Len(sim_flushed) = Offset(Len(people) + 1)

\* a finished run in which a trip failed to spawn with a vehicle allocated to
\* it and the next trip got a proper spec
C11_Witness ==
    /\ inst_pc = "done"
    /\ AllValid
    /\ \E k \in 1 .. (Len(sim_flushed) - 1) :
          /\ sim_flushed[k].spec.kind = "SpawningFailure"
          /\ sim_flushed[k].spec.use_vehicle # None
          /\ sim_flushed[k + 1].spec.kind # "SpawningFailure"

----------------------------------------------------------------------------
\* some consecutive pair of trips is out of time order or warps
Invalid(ts) ==
    \E k \in 1 .. (Len(ts) - 1) :
        \/ ts[k].depart >= ts[k + 1].depart
        \/ IsBldg(ts[k].to) # IsBldg(ts[k + 1].from)
        \/ IsBldg(ts[k].to) /\ ts[k].to.id # ts[k + 1].from.id

InvalidPersons == {i \in 1 .. Len(people) : Invalid(people[i].trips)}

FirstInvalid == CHOOSE i \in InvalidPersons : \A k \in InvalidPersons : i <= k

\* C12: when some person fails check_schedule, the run stops at the first
\* such person: the loop never gets past that person, only the persons before
\* are registered with the simulator, no trip is scheduled, no parked car is
\* seeded and the spawner is never flushed.
C12_FatalAbort ==
    (inst_pc # "idle" /\ InvalidPersons # {}) =>
        /\ inst_pc \in {"buses", "people", "panicked"}
        /\ p_i <= FirstInvalid
        /\ inst_pc = "panicked" => p_i = FirstInvalid
        /\ Len(sim_people) = p_i - 1
        /\ \A k \in 1 .. Len(sim_people) : sim_people[k].id = people[k].id
        /\ pending = {}
        /\ results = <<>>
        /\ spawner_trips = <<>>
        /\ pk_pc = "idle"
        /\ sim_parked = <<>>
        /\ sim_flushed = <<>>

\* the run has aborted at the second person, after registering the first
\* and collecting that person's trips
C12_Witness ==
    /\ inst_pc = "panicked"
    /\ p_i = 2
    /\ Len(sim_people) = 1
    /\ schedule_trips # <<>>

----------------------------------------------------------------------------
\* a walk trip ending at a building, then a drive trip from that building
WalkThenDriveShape(ts) ==
    /\ Len(ts) = 2
    /\ ts[1].mode = "Walk" /\ IsBldg(ts[1].to)
    /\ ts[2].mode = "Drive" /\ ts[2].from = ts[1].to
    /\ ts[1].depart < ts[2].depart

\* the network has a sidewalk spot at both ends of the walk and a driving
\* goal at the end of the drive
BothFeasible(ts) ==
    /\ ts[1].from \notin net.no_sidewalk
    /\ ts[1].to \notin net.no_sidewalk
    /\ <<ts[2].to, "Car">> \notin net.no_goal

\* C13: a handled person whose day is a walk to building B, then a drive from
\* B, both feasible on the network: the schedule is valid, the person owns
\* exactly one vehicle, a car, recorded once as initially parked at B, and the
\* person's trip specs are JustWalking then UsingParkedCar, the latter
\* starting at B with that car.
C13_WalkThenDrive ==
    inst_pc # "idle" =>
        \A i \in 1 .. (p_i - 1) :
            LET ts == people[i].trips IN
            (WalkThenDriveShape(ts) /\ BothFeasible(ts)) =>
                LET B == ts[1].to.id
                    walk == schedule_trips[Offset(i) + 1][2]
                    drive == schedule_trips[Offset(i) + 2][2]
                    owned == sim_people[i].vehicles
                IN  /\ ~Invalid(ts)
                    /\ Len(owned) = 1
                    /\ owned[1].spec.vehicle_type = "Car"
                    /\ Cardinality({k \in 1 .. Len(inst_parked_cars) :
                                       inst_parked_cars[k][1] = owned[1].id}) = 1
                    /\ \E k \in 1 .. Len(inst_parked_cars) :
                          inst_parked_cars[k] = <<owned[1].id, B>>
                    /\ walk.kind = "JustWalking"
                    /\ walk.start = ts[1].from /\ walk.goal = ts[1].to
                    /\ drive.kind = "UsingParkedCar"
                    /\ drive.start_bldg = B
                    /\ drive.goal = ts[2].to
                    /\ drive.car = owned[1].id

\* the second person of a finished run walked to building 2 and drove from
\* there in the second car of the simulation
C13_Witness ==
    /\ inst_pc = "done"
    /\ Len(people) = 2
    /\ WalkThenDriveShape(people[2].trips) /\ BothFeasible(people[2].trips)
    /\ sim_flushed[Len(sim_flushed)].spec.kind = "UsingParkedCar"
    /\ sim_flushed[Len(sim_flushed)].spec.car = 2

\* the draws of the base stream one person costs, from the scenario alone: one
\* per vehicle the person needs, one for the walking speed, one fork per trip
Draws(ts) == Len(get_vehicles(ts, 0).vehicle_specs) + 1 + Len(ts)

\* the SpawnTrip of trip t is a FromBorder
IsFromBorder(t) ==
    /\ SpawnTrip_new(t.from, t.to, t.mode) # Nothing
    /\ SpawnTrip_new(t.from, t.to, t.mode).kind = "FromBorder"

\* C23: every iteration of the person loop that registers a person leaves the
\* base stream advanced by the draws of that person, a count fixed by the
\* person's trips whatever the map: one per vehicle allocated, one for the
\* walking speed and one fork per trip, classified or not; and the sub-stream
\* of a trip matters to its spec only when the trip is a FromBorder.
C23_BaseStream ==
    [][(inst_pc = "people" /\ p_i' = p_i + 1) =>
          LET ts == people[p_i].trips
              person == sim_people'[Len(sim_people')]
              choices == get_vehicles(ts, rng).vehicle_foreach_trip
          IN  /\ Len(person.vehicles) = Len(get_vehicles(ts, 0).vehicle_specs)
              /\ rng' = Advance(rng, Draws(ts))
              /\ Len(schedule_trips') = Len(schedule_trips) + Len(ts)
              /\ \A k \in 1 .. Len(ts) :
                    ~IsFromBorder(ts[k]) =>
                        \A stream \in 0 .. 15 :
                            trip_spec(ts[k], vehicle_id(person, choices[k]), stream)
                                = schedule_trips'[Len(schedule_trips) + k][2]]_vars

\* a border commuter on the network whose border has no outgoing road: the
\* first trip is not classified, and the stream has moved by four draws
C23_Witness ==
    /\ inst_pc = "people"
    /\ p_i = 2
    /\ people[1].trips = BorderCommuter
    /\ net = NetCut
    /\ schedule_trips[1][2].kind = "SpawningFailure"
    /\ schedule_trips[2][2].kind = "UsingParkedCar"
    /\ rng \in {Advance(seed, 4) : seed \in Seeds}

----------------------------------------------------------------------------
(* Specification SpecSpawn: the person loop of instantiate_without_retries   *)
(* on a scenario of one person with one trip, for every trip between the     *)
(* endpoints in every mode, on every network of SpawnNets.                   *)

SpawnNets ==
    [no_goal : SUBSET {<<Bldg(2), "Car">>, <<Bldg(2), "Bike">>},
     outgoing : {{}, {1}},
     lanes : {[c \in {"Car", "Bike"} |-> 0],
              [c \in {"Car", "Bike"} |-> IF c = "Car" THEN 2 ELSE 1]},
     no_sidewalk : SUBSET {Bldg(1), Bldg(2)},
     transit : {{}, {<<Bldg(1), Bldg(2)>>}, TripEndpoints \X TripEndpoints}]

InitSpawn ==
    /\ trips = <<>>
    /\ sched_result = "unchecked"
    /\ gv_i = 0
    /\ rng \in Seeds
    /\ vehicle_specs = <<>>
    /\ cars_initially_parked_at = <<>>
    /\ vehicle_foreach_trip = <<>>
    /\ bike_idx = None
    /\ car_locations = <<>>
    /\ parkIdle
    /\ searchIdle
    /\ \E f \in TripEndpoints, t \in TripEndpoints, m \in TripModes :
         people = <<[id |-> 0, trips |-> <<IndividTrip(1, f, t, m)>>]>>
    /\ net \in SpawnNets
    /\ inst_pc = "people"
    /\ p_i = 1
    /\ schedule_trips = <<>>
    /\ inst_parked_cars = <<>>
    /\ sim_people = <<>>
    /\ pending = {}
    /\ results = <<>>
    /\ reordered = FALSE
    /\ spawner_trips = <<>>
    /\ sim_flushed = <<>>
    /\ only_seed_buses = Only({})
    /\ sim_buses = <<>>

NextSpawn == InstPerson

SpecSpawn == InitSpawn /\ [][NextSpawn]_vars

HasSidewalk(e) == e \notin net.no_sidewalk

\* C19: for every handled walk or transit trip, the spec is a spawning
\* failure exactly when an endpoint has no sidewalk spot; with both spots, a
\* walk trip is JustWalking between them, a transit trip is UsingTransit
\* between them if the network finds a route for them and JustWalking between
\* them if not.
C19_TransitFallback ==
    (inst_pc # "idle" /\ AllValid) =>
        \A i \in 1 .. (p_i - 1) : \A j \in 1 .. Len(people[i].trips) :
            LET t == people[i].trips[j]
                spec == schedule_trips[Offset(i) + j][2]
                both == HasSidewalk(t.from) /\ HasSidewalk(t.to)
                routed == t.mode = "Transit" /\ <<t.from, t.to>> \in net.transit
            IN  t.mode \in {"Walk", "Transit"} =>
                    /\ (spec.kind = "SpawningFailure") = ~both
                    /\ both => /\ spec.kind = (IF routed THEN "UsingTransit" ELSE "JustWalking")
                               /\ spec.start = t.from
                               /\ spec.goal = t.to

\* a transit trip between two buildings with sidewalks, on a network with a
\* route for other trips only, became a walk
C19_Witness ==
    /\ inst_pc = "people" /\ p_i = 2
    /\ people[1].trips[1].mode = "Transit"
    /\ people[1].trips[1].from = Bldg(2)
    /\ people[1].trips[1].to = Bldg(1)
    /\ net.no_sidewalk = {}
    /\ net.transit = {<<Bldg(1), Bldg(2)>>}
    /\ schedule_trips[1][2].kind = "JustWalking"

----------------------------------------------------------------------------
(* Specification SpecRun: one whole run of instantiate_without_retries, from *)
(* the seeding of the transit routes on, for every restriction of            *)
(* Restrictions and every scenario of up to MaxPeople persons of RunDays.    *)

\* no restriction, the empty set of Scenario::empty, a route of the map,
\* two routes of the map, a route of the map and a name the map does not have
Restrictions ==
    {NoRestriction, Only({}), Only({"B"}), Only({"A", "C"}), Only({"C", "Z"})}

RunDays == {WalkThenDrive, BorderCommuter, Driver, Warping}

InitRun ==
    /\ trips = <<>>
    /\ sched_result = "unchecked"
    /\ gv_i = 0
    /\ rng \in Seeds
    /\ vehicle_specs = <<>>
    /\ cars_initially_parked_at = <<>>
    /\ vehicle_foreach_trip = <<>>
    /\ bike_idx = None
    /\ car_locations = <<>>
    /\ road_links = {{1, 2}, {2, 3}}
    /\ bldg_parking = [b \in Buildings |-> [kind |-> "Private", n |-> 2 - b]]
    /\ all_spots = FreeSpots([r \in Roads |-> 1], bldg_parking, 0)
    /\ infinite_parking \in BOOLEAN
    /\ blackholed_bldgs = (IF infinite_parking THEN {1} ELSE {})
    /\ blackholed = 0
    /\ parked_cars = <<>>
    /\ base_rng = 0
    /\ pk_pc = "idle"
    /\ open_spots_per_road = <<>>
    /\ car_i = 0
    /\ ok = TRUE
    /\ seeded = 0
    /\ sim_parked = <<>>
    /\ warnings = <<>>
    /\ fork_log = <<>>
    /\ last_search = <<>>
    /\ \E n \in 0 .. MaxPeople :
         \E days \in [1 .. n -> RunDays] :
           people = [i \in 1 .. n |-> [id |-> i - 1, trips |-> days[i]]]
    /\ net = NetGood
    /\ inst_pc = "buses"
    /\ p_i = 1
    /\ schedule_trips = <<>>
    /\ inst_parked_cars = <<>>
    /\ sim_people = <<>>
    /\ pending = {}
    /\ results = <<>>
    /\ reordered = FALSE
    /\ spawner_trips = <<>>
    /\ sim_flushed = <<>>
    /\ only_seed_buses \in Restrictions
    /\ sim_buses = <<>>
    /\ searchIdle

NextRun == NextInstantiate

SpecRun == InitRun /\ [][NextRun]_vars

\* the routes the restriction lets through, in the order of the map
RoutesWanted ==
    IF only_seed_buses = NoRestriction THEN all_bus_routes
    ELSE SelectSeq(all_bus_routes, LAMBDA route : route.full_name \in only_seed_buses.routes)

\* the trips of the persons before position i
RECURSIVE TripsBefore(_)
TripsBefore(i) == IF i <= 1 THEN 0 ELSE TripsBefore(i - 1) + Len(people[i - 1].trips)

\* the phases in the order of the code, the fatal exit of the person loop aside
PhaseOrder ==
    {<<"buses", "people">>, <<"people", "parallel">>, <<"parallel", "parking">>,
     <<"parking", "done">>, <<"people", "panicked">>}

\* what the simulator, the spawner and the locals hold in each phase
PhaseState ==
    /\ inst_pc = "buses" => sim_buses = <<>> /\ sim_people = <<>> /\ schedule_trips = <<>>
    /\ inst_pc # "buses" => sim_buses = RoutesWanted
    /\ inst_pc \in {"buses", "people", "panicked"} =>
          /\ Len(sim_people) = p_i - 1
          /\ \A k \in 1 .. Len(sim_people) : sim_people[k].id = people[k].id
          /\ Len(schedule_trips) = TripsBefore(p_i)
          /\ pending = {} /\ results = <<>>
    /\ inst_pc \in {"parallel", "parking", "done"} =>
          /\ Len(sim_people) = Len(people)
          /\ \A k \in 1 .. Len(people) : sim_people[k].id = people[k].id
          /\ Len(schedule_trips) = TripsBefore(Len(people) + 1)
    /\ inst_pc \in {"buses", "people", "panicked", "parallel"} =>
          /\ spawner_trips = <<>>
          /\ pk_pc = "idle" /\ sim_parked = <<>> /\ warnings = <<>>
    /\ inst_pc \in {"parking", "done"} =>
          /\ pk_pc # "idle"
          /\ Len(spawner_trips) = Len(schedule_trips)
    /\ inst_pc # "done" => sim_flushed = <<>>
    /\ inst_pc = "done" => seed_returned /\ sim_flushed = spawner_trips

\* what a step may do: move to the next phase; shuffle the parked cars with
\* the stream of the person loop, without a fork; flush, out of the last phase
PhaseStep ==
    /\ inst_pc # "done" /\ inst_pc # "panicked"
    /\ inst_pc' # inst_pc => <<inst_pc, inst_pc'>> \in PhaseOrder
    /\ sim_buses' # sim_buses => inst_pc = "buses"
    /\ sim_people' # sim_people => inst_pc = "people"
    /\ spawner_trips' # spawner_trips => inst_pc = "parallel" /\ inst_pc' = "parking"
    /\ (inst_pc = "parallel" /\ inst_pc' = "parking") =>
          /\ inst_parked_cars' = shuffle(inst_parked_cars, rng)
          /\ rng' = Advance(rng, IF Len(inst_parked_cars) < 2 THEN 0
                                  ELSE Len(inst_parked_cars) - 1)
          /\ base_rng' = rng'
    /\ sim_parked' # sim_parked => inst_pc = "parking"
    /\ sim_flushed' # sim_flushed => inst_pc = "parking" /\ inst_pc' = "done"

\* C24: a run goes through its phases in one order: the transit routes are
\* seeded first, all of them without a restriction and else those whose full
\* name is in the set; then the persons are validated, given vehicles and
\* registered in scenario order; then all trips are scheduled; then the parked
\* cars are shuffled with the base stream itself and seeded; and the spawner
\* is flushed once, at the very end, after the scheduling and the seeding.
C24_PhaseOrder == [](PhaseState) /\ [][PhaseStep]_vars

\* a finished run restricted to routes A and C: two persons, three trips
\* scheduled and flushed, one car parked
C24_Witness ==
    /\ inst_pc = "done"
    /\ only_seed_buses = Only({"A", "C"})
    /\ sim_buses = <<[full_name |-> "A"], [full_name |-> "C"]>>
    /\ Len(people) = 2
    /\ people[1].trips = WalkThenDrive /\ people[2].trips = Driver
    /\ Len(sim_flushed) = 3
    /\ ~infinite_parking
    /\ Len(sim_parked) = 2

----------------------------------------------------------------------------
(* Specification SpecUnwrap: the person loop of instantiate_without_retries  *)
(* on one person, for every schedule of up to MaxLegs trips between the      *)
(* endpoints in every mode that check_schedule accepts, on the networks of   *)
(* Nets.                                                                     *)

Legs == [from : TripEndpoints, to : TripEndpoints, mode : TripModes]

InitUnwrap ==
    /\ trips = <<>>
    /\ sched_result = "unchecked"
    /\ gvIdle
    /\ parkIdle
    /\ searchIdle
    /\ \E n \in 0 .. MaxLegs :
         \E legs \in [1 .. n -> Legs] :
           LET ts == [i \in 1 .. n |->
                        IndividTrip(i, legs[i].from, legs[i].to, legs[i].mode)]
           IN  /\ check_schedule(ts) = "Ok"
               /\ people = <<[id |-> 0, trips |-> ts]>>
    /\ net \in Nets
    /\ inst_pc = "people"
    /\ p_i = 1
    /\ schedule_trips = <<>>
    /\ inst_parked_cars = <<>>
    /\ sim_people = <<>>
    /\ pending = {}
    /\ results = <<>>
    /\ reordered = FALSE
    /\ spawner_trips = <<>>
    /\ sim_flushed = <<>>
    /\ only_seed_buses = Only({})
    /\ sim_buses = <<>>

NextUnwrap == InstPerson

SpecUnwrap == InitUnwrap /\ [][NextUnwrap]_vars

\* the ids of the vehicles of the given type the simulator knows
VehicleIds(type) ==
    UNION {{sim_people[i].vehicles[k].id :
                k \in {j \in 1 .. Len(sim_people[i].vehicles) :
                         sim_people[i].vehicles[j].spec.vehicle_type = type}} :
           i \in 1 .. Len(sim_people)}

\* C25: for every person, get_vehicles returns one choice per trip: the index
\* of a car of the returned specs for a drive trip, the index of the bike for
\* a bike trip, none for a walk or transit trip; so to_trip_spec never panics
\* on a missing vehicle, and every VehicleAppearing, UsingParkedCar and
\* UsingBike spec names a vehicle of the person.
C25_VehiclePresent ==
    /\ inst_pc # "unwrap_none"
    /\ \A i \in 1 .. Len(people) :
          LET ts == people[i].trips
              gv == get_vehicles(ts, rng)
          IN  /\ Len(gv.vehicle_foreach_trip) = Len(ts)
              /\ \A k \in 1 .. Len(ts) :
                    LET idx == gv.vehicle_foreach_trip[k]
                    IN  IF ts[k].mode = "Drive"
                        THEN /\ idx \in 1 .. Len(gv.vehicle_specs)
                             /\ gv.vehicle_specs[idx].vehicle_type = "Car"
                        ELSE IF ts[k].mode = "Bike"
                        THEN /\ idx \in 1 .. Len(gv.vehicle_specs)
                             /\ gv.vehicle_specs[idx].vehicle_type = "Bike"
                             /\ idx = gv.bike_idx
                        ELSE idx = None
    /\ \A j \in 1 .. Len(schedule_trips) :
          LET spec == schedule_trips[j][2]
              mode == schedule_trips[j][3].mode
          IN  /\ spec.kind = "VehicleAppearing" =>
                    /\ mode \in {"Drive", "Bike"}
                    /\ spec.use_vehicle \in VehicleIds(IF mode = "Bike" THEN "Bike" ELSE "Car")
              /\ spec.kind = "UsingParkedCar" => spec.car \in VehicleIds("Car")
              /\ spec.kind = "UsingBike" => spec.bike \in VehicleIds("Bike")

\* a person who bikes in from the border and walks on: the bike trip got the
\* bike, the walk got nothing
C25_Witness ==
    /\ p_i = 2
    /\ Len(people[1].trips) = 2
    /\ people[1].trips[1].mode = "Bike" /\ people[1].trips[1].from = Border(1)
    /\ people[1].trips[2].mode = "Walk"
    /\ schedule_trips[1][2].kind = "VehicleAppearing"
    /\ schedule_trips[1][2].use_vehicle = 1
    /\ schedule_trips[2][2].kind = "JustWalking"

----------------------------------------------------------------------------
(* Scenario::remove_weird_schedules *)

\* self.people.retain(|person| person.check_schedule() is Ok)
RECURSIVE retain(_)
retain(persons) ==
    IF persons = <<>> THEN <<>>
    ELSE IF check_schedule(Head(persons).trips) = "Ok"
    THEN <<Head(persons)>> \o retain(Tail(persons))
    ELSE retain(Tail(persons))

fix_up_ids_never(persons) == persons

\* for (idx, person) in self.people.iter_mut().enumerate() { person.id = PersonID(idx) }
fix_up_ids(persons) == [k \in 1 .. Len(persons) |-> [persons[k] EXCEPT !.id = k - 1]]

\* Scenario::remove_weird_schedules, and instantiate_without_retries is
\* called on the scenario it returns
RemoveWeirdSchedules ==
    /\ inst_pc = "loaded"
    /\ people' = fix_up_ids(retain(people))
    /\ inst_pc' = "buses"
    /\ UNCHANGED <<net, p_i, schedule_trips, inst_parked_cars, sim_people, pending, results,
                   reordered, spawner_trips, sim_flushed>>
    /\ UNCHANGED <<personVars, gvVars, mapVars, busVars, searchVars, parkVars>>

----------------------------------------------------------------------------
(* Specification SpecFilter: remove_weird_schedules on every scenario of up  *)
(* to MaxPeople persons of FilterDays, numbered as loaded, and then the      *)
(* person loop of instantiate_without_retries on the scenario returned.      *)

FilterDays == {WalkThenDrive, Driver, BorderCommuter, Warping, Unordered}

InitFilter ==
    /\ trips = <<>>
    /\ sched_result = "unchecked"
    /\ gv_i = 0
    /\ rng \in Seeds
    /\ vehicle_specs = <<>>
    /\ cars_initially_parked_at = <<>>
    /\ vehicle_foreach_trip = <<>>
    /\ bike_idx = None
    /\ car_locations = <<>>
    /\ parkIdle
    /\ searchIdle
    /\ \E n \in 0 .. MaxPeople :
         \E days \in [1 .. n -> FilterDays] :
           people = [i \in 1 .. n |-> [id |-> i - 1, orig_id |-> i, trips |-> days[i]]]
    /\ net \in Nets
    /\ inst_pc = "loaded"
    /\ p_i = 1
    /\ schedule_trips = <<>>
    /\ inst_parked_cars = <<>>
    /\ sim_people = <<>>
    /\ pending = {}
    /\ results = <<>>
    /\ reordered = FALSE
    /\ spawner_trips = <<>>
    /\ sim_flushed = <<>>
    /\ only_seed_buses = Only({})
    /\ sim_buses = <<>>

NextFilter == RemoveWeirdSchedules \/ InstSeedBuses \/ InstPerson \/ InstParallelize

SpecFilter == InitFilter /\ [][NextFilter]_vars

\* the positions of the persons whose schedule is in order and does not warp
Passing == {i \in 1 .. Len(people) : ~Invalid(people[i].trips)}

\* the j-th of the passing positions
NthPassing(j) == CHOOSE i \in Passing : Cardinality({k \in Passing : k <= i}) = j

\* remove_weird_schedules returns the passing persons, in their order,
\* numbered by position
FilterStep ==
    inst_pc = "loaded" =>
        /\ Len(people') = Cardinality(Passing)
        /\ \A j \in 1 .. Len(people') :
              /\ people'[j].orig_id = people[NthPassing(j)].orig_id
              /\ people'[j].trips = people[NthPassing(j)].trips
              /\ people'[j].id = j - 1

\* C26: remove_weird_schedules keeps exactly the persons that pass
\* check_schedule, in their original order, and numbers them by position (the
\* person at index i gets PersonID(i)); the person loop run on the returned
\* scenario never takes the fatal exit, and registers every person under the
\* id of its position.
C26_FilteredScenario ==
    /\ [](/\ inst_pc # "panicked"
          /\ inst_pc # "loaded" =>
                /\ \A i \in 1 .. Len(people) :
                      people[i].id = i - 1 /\ check_schedule(people[i].trips) = "Ok"
                /\ \A k \in 1 .. Len(sim_people) : sim_people[k].id = k - 1)
    /\ [][FilterStep]_vars

\* of two persons loaded the first warps: the second is kept, is
\* person 0 of the returned scenario and is registered as such
C26_Witness ==
    /\ inst_pc = "parallel"
    /\ Len(people) = 1
    /\ people[1].orig_id = 2
    /\ people[1].id = 0
    /\ people[1].trips = WalkThenDrive
    /\ Len(sim_people) = 1 /\ sim_people[1].id = 0

====
